---- MODULE Spec2Model ----
(***************************************************************************)
(* Verification model of the movie conversation workflow of agentic_app:   *)
(* the LangGraph state machine (extract / search / clarify / respond), its *)
(* routing functions and the MovieService search it drives.                *)
(*                                                                         *)
(* Conventions                                                             *)
(*   - Optional[T] is a sequence of length 0 (None) or 1 (the value).      *)
(*   - str is a tuple of one-character strings.                            *)
(*   - float scores are exact rationals <<n, d>> in lowest terms, d > 0.   *)
(***************************************************************************)
EXTENDS Integers, Sequences, FiniteSets, TLC

\* state          the MovieState threaded through the graph
\* pc             the node the graph runs next; "END" between invocations,
\*                "raised" once an exception has left the graph
\* path           the nodes run so far in the current invocation
\* turns          the number of invocations started
\* clarify_visits the number of runs of the clarify node
\* call           one call of a pure function on inputs of its own: the
\*                function, its arguments and, once it has run, its result
VARIABLES state, pc, path, turns, clarify_visits, call

vars == <<state, pc, path, turns, clarify_visits, call>>

----------------------------------------------------------------------------
(* Optional values *)

None == <<>>

Some(x) == <<x>>

IsNone(o) == o = <<>>

Get(o) == o[1]

----------------------------------------------------------------------------
(* Exact rational arithmetic standing in for Python floats *)

RECURSIVE GCD(_, _)
GCD(a, b) == IF b = 0 THEN a ELSE GCD(b, a % b)

Reduce(n, d, g) == IF g = 0 THEN <<0, 1>> ELSE <<n \div g, d \div g>>

Rat(n, d) == Reduce(n, d, GCD(n, d))

RGe(x, y) == x[1] * y[2] >= y[1] * x[2]

RGt(x, y) == x[1] * y[2] > y[1] * x[2]

RLt(x, y) == x[1] * y[2] < y[1] * x[2]

RAdd(x, y) == Rat(x[1] * y[2] + y[1] * x[2], x[2] * y[2])

RSub(x, y) == Rat(x[1] * y[2] - y[1] * x[2], x[2] * y[2])

RDivInt(x, k) == Rat(x[1], x[2] * k)

RECURSIVE RSum(_)
RSum(s) == IF s = <<>> THEN <<0, 1>> ELSE RAdd(Head(s), RSum(Tail(s)))

RMax2(x, y) == IF RGe(x, y) THEN x ELSE y

RECURSIVE RMax(_)
RMax(s) == IF Len(s) = 1 THEN s[1] ELSE RMax2(s[1], RMax(Tail(s)))

----------------------------------------------------------------------------
(* Strings: str.lower, substring test, difflib.SequenceMatcher.ratio *)

LowerChar(c) ==
    CASE c = "A" -> "a" [] c = "B" -> "b" [] c = "C" -> "c" [] c = "D" -> "d"
      [] c = "E" -> "e" [] c = "I" -> "i" [] c = "K" -> "k" [] c = "L" -> "l"
      [] c = "N" -> "n" [] c = "P" -> "p" [] c = "R" -> "r" [] c = "S" -> "s"
      [] c = "T" -> "t" [] c = "X" -> "x" [] c = "Z" -> "z"
      [] OTHER -> c

Lower(s) == [i \in 1..Len(s) |-> LowerChar(s[i])]

\* needle in haystack (Python's substring operator; the empty needle is in
\* every haystack)
Contains(haystack, needle) ==
    \E i \in 0..(Len(haystack) - Len(needle)) :
        \A k \in 1..Len(needle) : haystack[i + k] = needle[k]

\* SequenceMatcher.find_longest_match on a[alo+1..ahi], b[blo+1..bhi] without
\* junk: the longest common block, earliest in a, then earliest in b.
\* The result is <<i, j, k>> with 0-based starts i, j and size k.
FindLongestMatch(a, b, alo, ahi, blo, bhi) ==
    LET Blocks == {t \in (alo..ahi) \X (blo..bhi) \X (0..(ahi - alo)) :
                      /\ t[1] + t[3] <= ahi
                      /\ t[2] + t[3] <= bhi
                      /\ \A k \in 1..t[3] : a[t[1] + k] = b[t[2] + k]}
        Better(t, u) == \/ t[3] > u[3]
                        \/ t[3] = u[3] /\ t[1] < u[1]
                        \/ t[3] = u[3] /\ t[1] = u[1] /\ t[2] <= u[2]
    IN  CHOOSE t \in Blocks : \A u \in Blocks : Better(t, u)

\* Total size of the matching blocks (SequenceMatcher.get_matching_blocks):
\* the longest block, then recursively the pieces left and right of it.
RECURSIVE MatchCount(_, _, _, _, _, _)
RECURSIVE MatchCountAround(_, _, _, _, _, _, _)
MatchCount(a, b, alo, ahi, blo, bhi) ==
    IF alo >= ahi \/ blo >= bhi THEN 0
    ELSE MatchCountAround(a, b, alo, ahi, blo, bhi,
                          FindLongestMatch(a, b, alo, ahi, blo, bhi))

MatchCountAround(a, b, alo, ahi, blo, bhi, m) ==
    IF m[3] = 0 THEN 0
    ELSE m[3] + MatchCount(a, b, alo, m[1], blo, m[2])
              + MatchCount(a, b, m[1] + m[3], ahi, m[2] + m[3], bhi)

\* SequenceMatcher(None, a, b).ratio() = 2*M/T, and 1.0 when both are empty
Ratio(a, b) ==
    IF Len(a) + Len(b) = 0 THEN <<1, 1>>
    ELSE Rat(2 * MatchCount(a, b, 0, Len(a), 0, Len(b)), Len(a) + Len(b))

_similarity(a, b) == Ratio(Lower(a), Lower(b))

_contains_match(haystack, needle) ==
    IF Contains(Lower(haystack), Lower(needle)) THEN <<1, 1>>
    ELSE _similarity(Lower(haystack), Lower(needle))

----------------------------------------------------------------------------
(* Domain data: Movie, MovieQuery and the catalogue the service searches *)

Actor(id, name) == [id |-> id, name |-> name]

Movie(id, title, year, director, genres, cast, rating) ==
    [id |-> id, title |-> title, year |-> year, director |-> director,
     genres |-> genres, cast |-> cast, rating |-> rating]

ACTORS ==
    [dicaprio |-> Actor("actor_001", <<"D", "i", "c">>),
     bale     |-> Actor("actor_002", <<"B", "a", "l">>),
     damon    |-> Actor("actor_008", <<"D", "a", "m">>),
     ledger   |-> Actor("actor_011", <<"L", "e", "d">>)]

\* The built-in catalogue, with titles, names and genres shortened to a few
\* letters; ids, years, ratings and the catalogue order are the source's.
MOVIES ==
    << Movie("mov_001", <<"I", "n", "c">>, 2010, <<"N", "o", "l">>,
             << <<"S", "f">>, <<"T", "h">>, <<"A", "c">> >>,
             << ACTORS.dicaprio >>, Rat(88, 10)),
       Movie("mov_002", <<"D", "k">>, 2008, <<"N", "o", "l">>,
             << <<"A", "c">>, <<"C", "r">>, <<"D", "r">> >>,
             << ACTORS.bale, ACTORS.ledger >>, Rat(90, 10)),
       Movie("mov_003", <<"B", "a", "t">>, 2005, <<"N", "o", "l">>,
             << <<"A", "c">>, <<"A", "d">> >>,
             << ACTORS.bale >>, Rat(82, 10)),
       Movie("mov_004", <<"D", "k", "r">>, 2012, <<"N", "o", "l">>,
             << <<"A", "c">>, <<"A", "d">> >>,
             << ACTORS.bale >>, Rat(84, 10)),
       Movie("mov_005", <<"T", "i", "t">>, 1997, <<"C", "a", "m">>,
             << <<"D", "r">>, <<"R", "o">> >>,
             << ACTORS.dicaprio >>, Rat(79, 10)),
       Movie("mov_006", <<"I", "n", "t">>, 2014, <<"N", "o", "l">>,
             << <<"S", "f">>, <<"A", "d">>, <<"D", "r">> >>,
             << ACTORS.damon >>, Rat(87, 10)),
       Movie("mov_007", <<"D", "e", "p">>, 2006, <<"S", "c", "o">>,
             << <<"C", "r">>, <<"T", "h">>, <<"D", "r">> >>,
             << ACTORS.dicaprio, ACTORS.damon >>, Rat(85, 10)) >>

MovieQuery(title, actor_name, director_name, genre, year_from, year_to, min_rating) ==
    [title |-> title, actor_name |-> actor_name, director_name |-> director_name,
     genre |-> genre, year_from |-> year_from, year_to |-> year_to,
     min_rating |-> min_rating]

\* MovieQuery.is_empty: no filter is set
is_empty(query) ==
    /\ IsNone(query.title)
    /\ IsNone(query.actor_name)
    /\ IsNone(query.director_name)
    /\ IsNone(query.genre)
    /\ IsNone(query.year_from)
    /\ IsNone(query.year_to)
    /\ IsNone(query.min_rating)

ScoredCandidate(item, score) == [item |-> item, score |-> score]

\* The range validation of ScoredCandidate.score (ge=0.0, le=1.0); building a
\* candidate with another score raises a ValidationError
ValidScore(score) == RGe(score, <<0, 1>>) /\ RGe(<<1, 1>>, score)

----------------------------------------------------------------------------
(* MovieService *)

TITLE_MATCH_THRESHOLD == Rat(5, 10)

ACTOR_MATCH_THRESHOLD == Rat(5, 10)

DIRECTOR_MATCH_THRESHOLD == Rat(5, 10)

\* sorted(..., key=score, reverse=True): stable, equal scores keep their order
RECURSIVE InsertByScore(_, _)
InsertByScore(sorted, c) ==
    IF sorted = <<>> THEN <<c>>
    ELSE IF RGe(Head(sorted).score, c.score)
         THEN <<Head(sorted)>> \o InsertByScore(Tail(sorted), c)
         ELSE <<c>> \o sorted

\* Variant: the candidates are returned in the order the loop found them
SortedByScoreDesc_unsorted(cs) == cs

RECURSIVE SortedByScoreDesc(_)
SortedByScoreDesc(cs) ==
    IF cs = <<>> THEN <<>>
    ELSE InsertByScore(SortedByScoreDesc(SubSeq(cs, 1, Len(cs) - 1)), cs[Len(cs)])

RECURSIVE InsertByRating(_, _)
InsertByRating(sorted, m) ==
    IF sorted = <<>> THEN <<m>>
    ELSE IF RGe(Head(sorted).rating, m.rating)
         THEN <<Head(sorted)>> \o InsertByRating(Tail(sorted), m)
         ELSE <<m>> \o sorted

RECURSIVE SortedByRatingDesc(_)
SortedByRatingDesc(ms) ==
    IF ms = <<>> THEN <<>>
    ELSE InsertByRating(SortedByRatingDesc(SubSeq(ms, 1, Len(ms) - 1)), ms[Len(ms)])

\* Variant: the upper end of the year range is not checked
_check_filters_without_year_to(movie, query) ==
    IF ~IsNone(query.year_from) /\ movie.year < Get(query.year_from) THEN FALSE
    ELSE ~(~IsNone(query.min_rating) /\ RLt(movie.rating, Get(query.min_rating)))

\* MovieService._check_filters: year range and minimum rating
_check_filters(movie, query) ==
    IF ~IsNone(query.year_from) /\ movie.year < Get(query.year_from) THEN FALSE
    ELSE IF ~IsNone(query.year_to) /\ movie.year > Get(query.year_to) THEN FALSE
    ELSE ~(~IsNone(query.min_rating) /\ RLt(movie.rating, Get(query.min_rating)))

\* One criterion of _score_movie: whether it lets the movie through, and
\* the score it appends
Unset == [ok |-> TRUE, scores |-> <<>>]

Scored(score, threshold) == [ok |-> ~RLt(score, threshold), scores |-> <<score>>]

TitleCriterion(movie, query) ==
    IF IsNone(query.title) THEN Unset
    ELSE Scored(_contains_match(movie.title, Get(query.title)), TITLE_MATCH_THRESHOLD)

ActorCriterion(movie, query) ==
    IF IsNone(query.actor_name) THEN Unset
    ELSE IF movie.cast = <<>> THEN [ok |-> FALSE, scores |-> <<>>]
    ELSE Scored(RMax([i \in 1..Len(movie.cast) |->
                         _contains_match(movie.cast[i].name, Get(query.actor_name))]),
                ACTOR_MATCH_THRESHOLD)

DirectorCriterion(movie, query) ==
    IF IsNone(query.director_name) THEN Unset
    ELSE Scored(_contains_match(movie.director, Get(query.director_name)),
                DIRECTOR_MATCH_THRESHOLD)

GenreCriterion(movie, query) ==
    IF IsNone(query.genre) THEN Unset
    ELSE [ok |-> \E i \in 1..Len(movie.genres) :
                     Lower(movie.genres[i]) = Lower(Get(query.genre)),
          scores |-> <<Rat(1, 1)>>]

AllCriteria(t, a, d, g) ==
    IF t.ok /\ a.ok /\ d.ok /\ g.ok
    THEN [matches |-> TRUE, scores |-> t.scores \o a.scores \o d.scores \o g.scores]
    ELSE [matches |-> FALSE, scores |-> <<>>]

\* MovieService._score_movie: [matches, scores]; a failing criterion returns
\* (False, []), otherwise the scores of the set criteria in the order title,
\* actor, director, genre
_score_movie(movie, query) ==
    AllCriteria(TitleCriterion(movie, query), ActorCriterion(movie, query),
                DirectorCriterion(movie, query), GenreCriterion(movie, query))

\* The body of the loop of MovieService.search for one movie: the candidates
\* it appends
\* Variant: the per-criterion scores summed, the rating taken as it is
FinalScore_undivided(movie, scores) ==
    IF scores # <<>> THEN RSum(scores) ELSE movie.rating

FinalScore(movie, scores) ==
    IF scores # <<>> THEN RDivInt(RSum(scores), Len(scores))
    ELSE RDivInt(movie.rating, 10)

Appended(movie, query, r) ==
    IF ~_check_filters(movie, query) THEN <<>>
    ELSE IF ~r.matches THEN <<>>
    ELSE <<ScoredCandidate(movie, FinalScore(movie, r.scores))>>

\* The loop of MovieService.search over movies[1..n], before the final sort
RECURSIVE SearchLoop(_, _, _)
SearchLoop(movies, query, n) ==
    IF n = 0 THEN <<>>
    ELSE SearchLoop(movies, query, n - 1)
         \o Appended(movies[n], query, _score_movie(movies[n], query))

RatedCandidates(byRating) ==
    [i \in 1..Len(byRating) |->
        ScoredCandidate(byRating[i], RDivInt(byRating[i].rating, 10))]

\* MovieService.search on a service holding `movies`
MovieServiceSearch(movies, query) ==
    IF is_empty(query) THEN RatedCandidates(SortedByRatingDesc(movies))
    ELSE SortedByScoreDesc(SearchLoop(movies, query, Len(movies)))

AnyInvalid(candidates) ==
    \E i \in 1..Len(candidates) : ~ValidScore(candidates[i].score)

\* Whether MovieService.search raises: it builds a candidate the validation
\* of ScoredCandidate rejects
SearchRaises(movies, query) == AnyInvalid(MovieServiceSearch(movies, query))

----------------------------------------------------------------------------
(* LLM decisions *)

LLMDecision(confidence, needs_clarification, clarification_prompt, payload) ==
    [confidence |-> confidence, needs_clarification |-> needs_clarification,
     clarification_prompt |-> clarification_prompt, payload |-> payload]

ExtractionPayload(is_success, data) == [is_success |-> is_success, data |-> data]

----------------------------------------------------------------------------
(* Routing *)

MAX_CLARIFICATION_ATTEMPTS == 3

HIGH_CONFIDENCE_THRESHOLD == Rat(8, 10)

AMBIGUITY_THRESHOLD == Rat(1, 10)

\* Variant: the needs_clarification flag of the decision is not consulted
route_after_extraction_without_flag(st) ==
    IF IsNone(st.extraction_decision) THEN "respond"
    ELSE IF IsNone(st.query) THEN "respond"
    ELSE IF is_empty(Get(st.query)) THEN "respond"
    ELSE "search"

\* Variant: a query with no filter set goes on to the search
route_after_extraction_without_empty_check(st) ==
    IF IsNone(st.extraction_decision) THEN "respond"
    ELSE IF Get(st.extraction_decision).needs_clarification THEN "respond"
    ELSE IF IsNone(st.query) THEN "respond"
    ELSE "search"

route_after_extraction(st) ==
    IF IsNone(st.extraction_decision) THEN "respond"
    ELSE IF Get(st.extraction_decision).needs_clarification THEN "respond"
    ELSE IF IsNone(st.query) THEN "respond"
    ELSE IF is_empty(Get(st.query)) THEN "respond"
    ELSE "search"

SecondScore(candidates) ==
    IF Len(candidates) > 1 THEN candidates[2].score ELSE Rat(0, 1)

RouteOnCandidates(candidates, clarification_count) ==
    IF candidates = <<>> THEN "respond"
    ELSE IF clarification_count >= MAX_CLARIFICATION_ATTEMPTS THEN "respond"
    ELSE IF Len(candidates) = 1
         THEN IF RGe(candidates[1].score, HIGH_CONFIDENCE_THRESHOLD)
              THEN "respond" ELSE "clarify"
    ELSE IF /\ RGe(candidates[1].score, HIGH_CONFIDENCE_THRESHOLD)
            /\ RGt(RSub(candidates[1].score, SecondScore(candidates)),
                   AMBIGUITY_THRESHOLD)
         THEN "respond"
    ELSE "clarify"

\* Variant: no ceiling on the clarification attempts
route_after_search_without_ceiling(st) ==
    IF st.candidates = <<>> THEN "respond"
    ELSE RouteOnCandidates(st.candidates, 0)

\* Variant: the ceiling compared with > instead of >=
route_after_search_late_ceiling(st) ==
    IF st.candidates = <<>> THEN "respond"
    ELSE IF st.clarification_count > MAX_CLARIFICATION_ATTEMPTS THEN "respond"
    ELSE RouteOnCandidates(st.candidates, 0)

\* Variant: a gap equal to AMBIGUITY_THRESHOLD counts as a clear winner
route_after_search_gap_inclusive(st) ==
    IF /\ Len(st.candidates) > 1
       /\ st.clarification_count < MAX_CLARIFICATION_ATTEMPTS
       /\ RGe(st.candidates[1].score, HIGH_CONFIDENCE_THRESHOLD)
       /\ RSub(st.candidates[1].score, st.candidates[2].score) = AMBIGUITY_THRESHOLD
    THEN "respond"
    ELSE RouteOnCandidates(st.candidates, st.clarification_count)

route_after_search(st) == RouteOnCandidates(st.candidates, st.clarification_count)

\* Defined by routing.py, but no edge of the graph uses it
route_after_clarification(st) == "extract"

----------------------------------------------------------------------------
(* Messages *)

HumanMessage == [role |-> "human"]

\* AIMessage of clarify_node listing options: "I found {found} movies ...",
\* then one numbered line per shown candidate (options[i] is the id of the
\* movie on line i)
ClarifyOptionsMessage(found, options) ==
    [role |-> "ai", kind |-> "clarify_options", found |-> found, options |-> options]

ClarifyNoMatchesMessage == [role |-> "ai", kind |-> "clarify_no_matches"]

\* AIMessage carrying the content the response model generated from the
\* prompt of _generate_movie_response(movie)
MovieResponseMessage(movie) == [role |-> "ai", kind |-> "movie_response", movie |-> movie.id]

\* ... and from the prompt of _generate_not_found_response
NotFoundResponseMessage == [role |-> "ai", kind |-> "not_found_response"]

----------------------------------------------------------------------------
(* Inputs of the conversation model *)

MaxTurns == 5

Title(t) == MovieQuery(Some(t), None, None, None, None, None, None)

EmptyQuery == MovieQuery(None, None, None, None, None, None, None)

\* Queries the extraction model returns in the conversation model: no filter,
\* one exact title, one near title, a title shared by two movies, a title
\* that matches nothing, a rating filter that most of the catalogue passes
DialogueQueries ==
    { EmptyQuery,
      Title(<<"b", "a", "t">>),
      Title(<<"b", "a", "x">>),
      Title(<<"d", "k">>),
      Title(<<"z", "z">>),
      MovieQuery(None, None, None, None, None, None, Some(Rat(80, 10))) }

Prompt == "Which movie did you mean?"

\* Decisions the extraction model returns in the conversation model
DialogueDecisions ==
    { LLMDecision(Rat(95, 100), FALSE, None, ExtractionPayload(TRUE, Some(q))) :
          q \in DialogueQueries }
    \cup
    { LLMDecision(Rat(65, 100), TRUE, Some(Prompt),
                  ExtractionPayload(TRUE, Some(Title(<<"d", "k">>)))),
      LLMDecision(Rat(95, 100), TRUE, None,
                  ExtractionPayload(TRUE, Some(Title(<<"b", "a", "t">>)))),
      LLMDecision(Rat(30, 100), FALSE, None, ExtractionPayload(FALSE, None)),
      LLMDecision(Rat(50, 100), FALSE, None,
                  ExtractionPayload(FALSE, Some(Title(<<"b", "a", "t">>)))) }

\* What a call of a structured-output model does: it returns a value or raises
LLMOutcomes(values) == [kind : {"returned"}, value : values] \cup {[kind |-> "raised"]}

----------------------------------------------------------------------------
(* The graph: nodes, with the edge that follows each *)

InitialState ==
    [messages |-> <<>>, query |-> None, candidates |-> <<>>, selected_movie |-> None,
     extraction_decision |-> None, needs_clarification |-> FALSE,
     clarification_count |-> 0]

\* Variant: a decision without a usable query keeps the query of the turn before
extract_query_node_keeping_query(st, decision) ==
    IF st.messages = <<>>
    THEN [st EXCEPT !.query = None, !.extraction_decision = None,
                    !.needs_clarification = TRUE]
    ELSE [st EXCEPT !.query = IF /\ decision.payload.is_success
                                 /\ ~IsNone(decision.payload.data)
                              THEN decision.payload.data ELSE st.query,
                    !.extraction_decision = Some(decision),
                    !.needs_clarification = decision.needs_clarification]

\* extract_query_node given the LLM's decision: the state update applied
extract_query_node(st, decision) ==
    IF st.messages = <<>>
    THEN [st EXCEPT !.query = None, !.extraction_decision = None,
                    !.needs_clarification = TRUE]
    ELSE [st EXCEPT !.query = IF /\ decision.payload.is_success
                                 /\ ~IsNone(decision.payload.data)
                              THEN decision.payload.data ELSE None,
                    !.extraction_decision = Some(decision),
                    !.needs_clarification = decision.needs_clarification]

\* Variant: the top candidate is selected whenever its score is high, however
\* many candidates there are
SearchUpdate_top_candidate(st, candidates) ==
    [st EXCEPT !.candidates = candidates,
               !.selected_movie =
                   IF /\ Len(candidates) >= 1
                      /\ RGe(candidates[1].score, HIGH_CONFIDENCE_THRESHOLD)
                   THEN Some(candidates[1].item) ELSE None]

\* The second half of search_movies_node: select a single high-score match
SearchUpdate(st, candidates) ==
    [st EXCEPT !.candidates = candidates,
               !.selected_movie =
                   IF /\ Len(candidates) = 1
                      /\ RGe(candidates[1].score, HIGH_CONFIDENCE_THRESHOLD)
                   THEN Some(candidates[1].item) ELSE None]

KeepSelection(st, new) ==
    IF new.selected_movie = None
    THEN [new EXCEPT !.selected_movie = st.selected_movie] ELSE new

\* Variant: a search that selects nothing keeps the earlier selection
search_movies_node_keeping_selection(st) ==
    IF IsNone(st.query)
    THEN [st EXCEPT !.candidates = <<>>]
    ELSE KeepSelection(st, SearchUpdate(st, MovieServiceSearch(MOVIES, Get(st.query))))

search_movies_node(st) ==
    IF IsNone(st.query)
    THEN [st EXCEPT !.candidates = <<>>, !.selected_movie = None]
    ELSE SearchUpdate(st, MovieServiceSearch(MOVIES, Get(st.query)))

Min(a, b) == IF a <= b THEN a ELSE b

\* The message clarify_node builds from the candidates
ClarifyMessage(candidates) ==
    IF candidates = <<>> THEN ClarifyNoMatchesMessage
    ELSE ClarifyOptionsMessage(
             Len(candidates),
             [i \in 1..Min(5, Len(candidates)) |-> candidates[i].item.id])

\* Variant: every candidate is offered as an option
clarify_node_all_options(st) ==
    [st EXCEPT !.messages = Append(@, ClarifyOptionsMessage(
                                Len(st.candidates),
                                [i \in 1..Len(st.candidates) |-> st.candidates[i].item.id])),
               !.needs_clarification = TRUE,
               !.clarification_count = st.clarification_count + 1]

clarify_node(st) ==
    [st EXCEPT !.messages = Append(@, ClarifyMessage(st.candidates)),
               !.needs_clarification = TRUE,
               !.clarification_count = st.clarification_count + 1]

\* Variant: no best-effort answer when nothing was selected
RespondMessage_without_best_effort(st) ==
    IF ~IsNone(st.selected_movie) THEN MovieResponseMessage(Get(st.selected_movie))
    ELSE NotFoundResponseMessage

\* The message respond_node asks the response model for
RespondMessage(st) ==
    IF ~IsNone(st.selected_movie) THEN MovieResponseMessage(Get(st.selected_movie))
    ELSE IF st.candidates = <<>> THEN NotFoundResponseMessage
    ELSE MovieResponseMessage(st.candidates[1].item)

\* Variant: the returned message list overwrites the history instead of being
\* added to it
respond_node_replacing_messages(st) ==
    [st EXCEPT !.messages = <<RespondMessage(st)>>,
               !.needs_clarification = FALSE]

respond_node(st) ==
    [st EXCEPT !.messages = Append(@, RespondMessage(st)),
               !.needs_clarification = FALSE]

NoCall == [fn |-> "none"]

\* The conversation before its first invocation
Idle ==
    /\ state = InitialState
    /\ pc = "END"
    /\ path = <<>>
    /\ turns = 0
    /\ clarify_visits = 0

Init == Idle /\ call = NoCall

\* movie_graph.invoke with one new user message; the graph enters at extract
Invoke ==
    /\ pc = "END"
    /\ turns < MaxTurns
    /\ state' = [state EXCEPT !.messages = Append(@, HumanMessage)]
    /\ pc' = "extract"
    /\ path' = <<>>
    /\ turns' = turns + 1
    /\ UNCHANGED <<clarify_visits, call>>

\* movie_graph.invoke with no message at all on a fresh conversation
InvokeEmpty ==
    /\ pc = "END"
    /\ turns < MaxTurns
    /\ state.messages = <<>>
    /\ pc' = "extract"
    /\ path' = <<>>
    /\ turns' = turns + 1
    /\ UNCHANGED <<state, clarify_visits, call>>

\* The extract node and the conditional edge after it. An exception of the
\* extraction model leaves the node, and with it the graph.
ExtractNode ==
    /\ pc = "extract"
    /\ path' = Append(path, "extract")
    /\ IF state.messages = <<>>
       THEN /\ state' = extract_query_node(state, None)
            /\ pc' = route_after_extraction(state')
       ELSE \E out \in LLMOutcomes(DialogueDecisions) :
               IF out.kind = "raised"
               THEN pc' = "raised" /\ UNCHANGED state
               ELSE /\ state' = extract_query_node(state, out.value)
                    /\ pc' = route_after_extraction(state')
    /\ UNCHANGED <<turns, clarify_visits, call>>

\* The search node and the conditional edge after it. A ValidationError of
\* ScoredCandidate leaves MovieService.search, the node and the graph.
SearchNode ==
    /\ pc = "search"
    /\ path' = Append(path, "search")
    /\ IF ~IsNone(state.query) /\ SearchRaises(MOVIES, Get(state.query))
       THEN pc' = "raised" /\ UNCHANGED state
       ELSE /\ state' = search_movies_node(state)
            /\ pc' = route_after_search(state')
    /\ UNCHANGED <<turns, clarify_visits, call>>

\* Variant: clarify followed by the edge route_after_clarification names
ClarifyNode_then_route ==
    /\ pc = "clarify"
    /\ path' = Append(path, "clarify")
    /\ state' = clarify_node(state)
    /\ pc' = route_after_clarification(state')
    /\ clarify_visits' = clarify_visits + 1
    /\ UNCHANGED <<turns, call>>

\* The clarify node and its edge to END
ClarifyNode ==
    /\ pc = "clarify"
    /\ path' = Append(path, "clarify")
    /\ state' = clarify_node(state)
    /\ pc' = "END"
    /\ clarify_visits' = clarify_visits + 1
    /\ UNCHANGED <<turns, call>>

\* The respond node and its edge to END. An exception of the response model
\* leaves the node, and with it the graph.
RespondNode ==
    /\ pc = "respond"
    /\ path' = Append(path, "respond")
    /\ \E out \in {"returned", "raised"} :
          IF out = "raised"
          THEN pc' = "raised" /\ UNCHANGED state
          ELSE state' = respond_node(state) /\ pc' = "END"
    /\ UNCHANGED <<turns, clarify_visits, call>>

Next == Invoke \/ InvokeEmpty \/ ExtractNode \/ SearchNode \/ ClarifyNode \/ RespondNode

\* The conversation: invocations of the compiled graph, one after the other,
\* each on the state the previous one returned
Spec == Init /\ [][Next]_vars

----------------------------------------------------------------------------
(* The routing functions called on inputs of their own *)

MaxCandidates == 3

ScoreGrid == {Rat(k, 100) : k \in {50, 70, 79, 80, 85, 90, 100}}

\* Candidate lists as the service returns them: scores in non-increasing order
SortedCandidateLists ==
    {cs \in UNION {[1..n -> [item : {MOVIES[1]}, score : ScoreGrid]] :
                      n \in 0..MaxCandidates} :
        \A i \in 1..(Len(cs) - 1) : RGe(cs[i].score, cs[i + 1].score)}

SearchRouteStates ==
    {[InitialState EXCEPT !.candidates = cs, !.clarification_count = n] :
        cs \in SortedCandidateLists, n \in 0..(MAX_CLARIFICATION_ATTEMPTS + 1)}

\* The empty query, one query per single filter, and one with two filters
RouteQueries ==
    { EmptyQuery,
      Title(<<"b", "a", "t">>),
      MovieQuery(None, Some(<<"d", "i", "c">>), None, None, None, None, None),
      MovieQuery(None, None, Some(<<"n", "o", "l">>), None, None, None, None),
      MovieQuery(None, None, None, Some(<<"s", "f">>), None, None, None),
      MovieQuery(None, None, None, None, Some(2006), None, None),
      MovieQuery(None, None, None, None, None, Some(2010), None),
      MovieQuery(None, None, None, None, None, None, Some(Rat(80, 10))),
      MovieQuery(Some(<<"d", "k">>), None, None, None, None, Some(2010), None) }

Optional(S) == {None} \cup {Some(x) : x \in S}

\* ExtractionPayload validates is_success => data is not None
RoutePayloads ==
    {ExtractionPayload(TRUE, Some(q)) : q \in RouteQueries}
    \cup {ExtractionPayload(FALSE, d) : d \in Optional(RouteQueries)}

RouteDecisions ==
    {LLMDecision(c, nc, p, payload) :
        c \in {Rat(65, 100), Rat(80, 100), Rat(95, 100)}, nc \in BOOLEAN,
        p \in Optional({Prompt}), payload \in RoutePayloads}

ExtractionRouteStates ==
    {[InitialState EXCEPT !.extraction_decision = d, !.query = q] :
        d \in Optional(RouteDecisions), q \in Optional(RouteQueries)}

Call(fn, st) == [fn |-> fn, st |-> st, result |-> None]

InitRoute ==
    /\ Idle
    /\ call \in {Call("route_after_search", st) : st \in SearchRouteStates}
           \cup {Call("route_after_extraction", st) : st \in ExtractionRouteStates}

CallRouteAfterSearch ==
    /\ call.fn = "route_after_search"
    /\ IsNone(call.result)
    /\ call' = [call EXCEPT !.result = Some(route_after_search(call.st))]
    /\ UNCHANGED <<state, pc, path, turns, clarify_visits>>

CallRouteAfterExtraction ==
    /\ call.fn = "route_after_extraction"
    /\ IsNone(call.result)
    /\ call' = [call EXCEPT !.result = Some(route_after_extraction(call.st))]
    /\ UNCHANGED <<state, pc, path, turns, clarify_visits>>

NextRoute == CallRouteAfterSearch \/ CallRouteAfterExtraction

\* One call of a routing function on any state of the bounded input sets
SpecRoute == InitRoute /\ [][NextRoute]_vars

----------------------------------------------------------------------------
(* SearchableList and the search functions called on inputs of their own *)

SearchHit(score, item) == [item |-> item, score |-> score]

\* round(x, 4) on a non-negative score
Round4(x) == Rat((2 * 10000 * x[1] + x[2]) \div (2 * x[2]), 10000)

\* rapidfuzz process.extract without score_cutoff: the limit best of the
\* (score, index) pairs of all texts, by score and then by index
Scored_texts(scores) == [i \in 1..Len(scores) |-> [score |-> scores[i], idx |-> i]]

process_extract(scores, limit) ==
    SubSeq(SortedByScoreDesc(Scored_texts(scores)), 1, Min(limit, Len(scores)))

Hits(items, raw) ==
    [i \in 1..Len(raw) |-> SearchHit(Round4(RDivInt(raw[i].score, 100)), items[raw[i].idx])]

Reversed(s) == [i \in 1..Len(s) |-> s[Len(s) + 1 - i]]

\* Variant: a sort that puts the later of two equal scores first
SearchResults_last_seen_first(hits) == SortedByScoreDesc(Reversed(hits))

\* SearchResults.__init__: the hits sorted by score, high to low
SearchResults(hits) == SortedByScoreDesc(hits)

\* SearchableList.search; `scores` holds what the scorer gives for the query
\* against the text of each item
SearchableListSearch(items, scores, limit) ==
    SearchResults(SortedByScoreDesc(Hits(items, process_extract(scores, limit))))

MaxItems == 3

MaxLimit == 3

\* Outputs of the scorer, on its scale of 0 to 100; 200/3 and 66.67 differ
\* and both become 0.6667
ScorerOutputs == {Rat(0, 1), Rat(200, 3), Rat(6667, 100), Rat(86, 1), Rat(100, 1)}

SearchableListCalls ==
    UNION {{[fn |-> "SearchableList.search", items |-> [i \in 1..n |-> [id |-> i]],
             scores |-> sc, limit |-> l, result |-> None, props |-> None] :
               sc \in [1..n -> ScorerOutputs], l \in 1..MaxLimit} :
           n \in 0..MaxItems}

SearchQueries ==
    DialogueQueries
    \cup { MovieQuery(None, None, None, None, Some(2020), None, None),
           MovieQuery(Some(<<"b", "a", "t">>), None, None, None, None, Some(2000), None) }

MovieServiceCalls ==
    {[fn |-> "MovieService.search", movies |-> ms, query |-> q, result |-> None,
      raised |-> FALSE] :
        ms \in {<<>>, MOVIES}, q \in SearchQueries}

\* The conversation, or one direct call of a search function
InitSearch ==
    \/ Init
    \/ /\ state = InitialState
       /\ pc = "call"
       /\ path = <<>>
       /\ turns = 0
       /\ clarify_visits = 0
       /\ call \in SearchableListCalls \cup MovieServiceCalls

CallSearchableListSearch ==
    /\ call.fn = "SearchableList.search"
    /\ IsNone(call.result)
    /\ call' = [call EXCEPT !.result =
                   Some(SearchableListSearch(call.items, call.scores, call.limit))]
    /\ UNCHANGED <<state, pc, path, turns, clarify_visits>>

CallMovieServiceSearch ==
    /\ call.fn = "MovieService.search"
    /\ IsNone(call.result)
    /\ ~call.raised
    /\ call' = IF SearchRaises(call.movies, call.query)
               THEN [call EXCEPT !.raised = TRUE]
               ELSE [call EXCEPT !.result =
                        Some(MovieServiceSearch(call.movies, call.query))]
    /\ UNCHANGED <<state, pc, path, turns, clarify_visits>>

NextSearch == Next \/ CallSearchableListSearch \/ CallMovieServiceSearch

SpecSearch == InitSearch /\ [][NextSearch]_vars

----------------------------------------------------------------------------
(* SearchResults, and the matchers called on inputs of their own *)

_super_threshold == Rat(98, 100)

_super_margin == Rat(10, 100)

_candidate_threshold == Rat(80, 100)

_candidate_max == 5

\* Variant: the margin must be exceeded, not reached
_detect_super_strict_margin(hits, threshold, margin) ==
    IF hits = <<>> THEN None
    ELSE IF RLt(hits[1].score, threshold) THEN None
    ELSE IF Len(hits) = 1 \/ RGt(RSub(hits[1].score, hits[2].score), margin)
         THEN Some(hits[1])
    ELSE None

\* SearchResults._detect_super on the sorted hits of a result set
_detect_super(hits, threshold, margin) ==
    IF hits = <<>> THEN None
    ELSE IF RLt(hits[1].score, threshold) THEN None
    ELSE IF Len(hits) = 1 \/ RGe(RSub(hits[1].score, hits[2].score), margin)
         THEN Some(hits[1])
    ELSE None

super_match(hits) == _detect_super(hits, _super_threshold, _super_margin)

has_super_match(hits) == super_match(hits) # None

IsCandidate(h) == RGe(h.score, _candidate_threshold)

ItemSlice(qualifying, n) == [i \in 1..Min(n, Len(qualifying)) |-> qualifying[i].item]

\* Variant: every qualifying item, without the cap
SearchResults_candidates_uncapped(hits) ==
    ItemSlice(SelectSeq(hits, IsCandidate), Len(hits))

\* SearchResults.candidates
SearchResults_candidates(hits) ==
    ItemSlice(SelectSeq(hits, IsCandidate), _candidate_max)

has_candidate_match(hits) == Len(SearchResults_candidates(hits)) > 0

\* SearchResults.best
SearchResults_best(hits) == IF hits # <<>> THEN Some(hits[1]) ELSE None

\* Every property of a result set, and its hits as iteration yields them
Properties(hits) ==
    [ iter |-> hits,
      best |-> SearchResults_best(hits),
      super_match |-> super_match(hits),
      has_super_match |-> has_super_match(hits),
      candidates |-> SearchResults_candidates(hits),
      has_candidate_match |-> has_candidate_match(hits) ]

MaxHits == 3

MaxManyHits == 6

HitScoreGrid == {Rat(k, 100) : k \in {79, 80, 88, 97, 98, 100}}

CoarseScoreGrid == {Rat(k, 100) : k \in {79, 80, 90}}

\* Lists of up to n hits in any order of score; the item is the position
HitLists(n, grid) ==
    UNION {{[i \in 1..k |-> SearchHit(sc[i], [id |-> i])] : sc \in [1..k -> grid]} :
           k \in 0..n}

SearchResultsCalls ==
    {[fn |-> "SearchResults", hits |-> hs, result |-> None, props |-> None] :
        hs \in HitLists(MaxHits, HitScoreGrid) \cup HitLists(MaxManyHits, CoarseScoreGrid)}

FUZZY_TITLE_THRESHOLD == Rat(3, 10)

FuzzyCandidate(movie, score) ==
    IF RGt(score, FUZZY_TITLE_THRESHOLD) THEN <<ScoredCandidate(movie, score)>> ELSE <<>>

RECURSIVE FuzzyLoop(_, _, _)
FuzzyLoop(movies, title, n) ==
    IF n = 0 THEN <<>>
    ELSE FuzzyLoop(movies, title, n - 1)
         \o FuzzyCandidate(movies[n], _contains_match(movies[n].title, title))

\* MovieService.fuzzy_match_title on a service holding `movies`
fuzzy_match_title(movies, title) ==
    SortedByScoreDesc(FuzzyLoop(movies, title, Len(movies)))

\* A catalogue with the lowest and the highest rating a Movie accepts
EDGE_MOVIES ==
    << Movie("mov_101", <<"B", "a", "t">>, 2005, <<"N", "o", "l">>,
             << <<"A", "c">> >>, << ACTORS.bale >>, Rat(0, 10)),
       Movie("mov_102", <<"B", "a", "x">>, 2008, <<"N", "o", "l">>,
             << <<"A", "c">> >>, << ACTORS.bale >>, Rat(100, 10)) >>

MatchQueries ==
    SearchQueries
    \cup { MovieQuery(Some(<<"b", "a", "t">>), None, Some(<<"n", "o", "l">>),
                      None, None, None, None),
           MovieQuery(Some(<<"b", "a">>), Some(<<"b", "a", "l">>), Some(<<"n", "o">>),
                      Some(<<"a", "c">>), None, None, None),
           MovieQuery(None, None, None, Some(<<"D", "R">>), None, None, None),
           MovieQuery(None, Some(<<"d", "a", "n">>), None, None, None, None, None),
           MovieQuery(None, None, Some(<<"n", "o", "l">>), None, Some(2008),
                      Some(2012), Some(Rat(84, 10))) }

MatchServiceCalls ==
    {[fn |-> "MovieService.search", movies |-> ms, query |-> q, result |-> None,
      raised |-> FALSE] :
        ms \in {<<>>, MOVIES, EDGE_MOVIES}, q \in MatchQueries}
    \cup
    {[fn |-> "MovieService.fuzzy_match_title", movies |-> ms, title |-> t,
      result |-> None, raised |-> FALSE] :
        ms \in {<<>>, MOVIES, EDGE_MOVIES},
        t \in {<<>>, <<"b", "a", "t">>, <<"b", "a">>, <<"d", "k">>, <<"z", "z">>}}

CallFuzzyMatchTitle ==
    /\ call.fn = "MovieService.fuzzy_match_title"
    /\ IsNone(call.result)
    /\ ~call.raised
    /\ call' = IF AnyInvalid(fuzzy_match_title(call.movies, call.title))
               THEN [call EXCEPT !.raised = TRUE]
               ELSE [call EXCEPT !.result =
                        Some(fuzzy_match_title(call.movies, call.title))]
    /\ UNCHANGED <<state, pc, path, turns, clarify_visits>>

InitMatch ==
    /\ state = InitialState
    /\ pc = "call"
    /\ path = <<>>
    /\ turns = 0
    /\ clarify_visits = 0
    /\ call \in SearchResultsCalls \cup SearchableListCalls \cup MatchServiceCalls

CallSearchResults ==
    /\ call.fn = "SearchResults"
    /\ IsNone(call.result)
    /\ call' = [call EXCEPT !.result = Some(SearchResults(call.hits))]
    /\ UNCHANGED <<state, pc, path, turns, clarify_visits>>

\* Reading the properties of the result set a call has returned
ReadProperties ==
    /\ call.fn \in {"SearchResults", "SearchableList.search"}
    /\ ~IsNone(call.result)
    /\ IsNone(call.props)
    /\ call' = [call EXCEPT !.props = Some(Properties(Get(call.result)))]
    /\ UNCHANGED <<state, pc, path, turns, clarify_visits>>

NextMatch ==
    \/ CallSearchResults
    \/ CallSearchableListSearch
    \/ ReadProperties
    \/ CallMovieServiceSearch
    \/ CallFuzzyMatchTitle

SpecMatch == InitMatch /\ [][NextMatch]_vars

HasProperties == call.fn \in {"SearchResults", "SearchableList.search"} /\ call.props # None

----------------------------------------------------------------------------
(* The decision envelope and the extraction payload as validated models *)

\* A datetime: date, time, microsecond and the UTC offset in minutes (None
\* for a naive datetime)
Datetime(date, time, microsecond, tz) ==
    [date |-> date, time |-> time, microsecond |-> microsecond, tz |-> tz]

Timestamps ==
    { Datetime(<<2025, 1, 2>>, <<3, 4, 5>>, 0, Some(0)),
      Datetime(<<2025, 11, 30>>, <<23, 59, 7>>, 120000, Some(0)),
      Datetime(<<2024, 2, 29>>, <<0, 0, 0>>, 45, None),
      Datetime(<<2025, 6, 1>>, <<12, 30, 0>>, 0, Some(-330)) }

\* The value the default factory of timestamp gives: datetime.now(UTC)
Now == Datetime(<<2026, 1, 1>>, <<9, 0, 0>>, 250000, Some(0))

\* Field(ge=0.0, le=1.0) of LLMDecisionMeta.confidence
ValidConfidence(confidence) ==
    RGe(confidence, <<0, 1>>) /\ RGe(<<1, 1>>, confidence)

Raised == [raised |-> TRUE]

Built(value) == [raised |-> FALSE, value |-> value]

Default(given, default) == IF given = None THEN default ELSE Get(given)

Clamped(confidence) ==
    IF RLt(confidence, <<0, 1>>) THEN <<0, 1>>
    ELSE IF RGt(confidence, <<1, 1>>) THEN <<1, 1>> ELSE confidence

\* Variant: a confidence out of range is brought into range
LLMDecision_new_clamping(kw) ==
    Built([confidence |-> Clamped(kw.confidence),
           reasoning |-> kw.reasoning,
           needs_clarification |-> Default(kw.needs_clarification, FALSE),
           clarification_prompt |-> kw.clarification_prompt,
           timestamp |-> Default(kw.timestamp, Now),
           payload |-> kw.payload])

\* LLMDecision[P](**kw): the fields of LLMDecisionMeta and the payload.
\* needs_clarification and timestamp may be left out (None in kw).
LLMDecision_new(kw) ==
    IF ~ValidConfidence(kw.confidence) THEN Raised
    ELSE Built([confidence |-> kw.confidence,
                reasoning |-> kw.reasoning,
                needs_clarification |-> Default(kw.needs_clarification, FALSE),
                clarification_prompt |-> kw.clarification_prompt,
                timestamp |-> Default(kw.timestamp, Now),
                payload |-> kw.payload])

\* Variant: no validator
ExtractionPayload_new_unchecked(kw) ==
    Built([is_success |-> kw.is_success,
           data |-> kw.data,
           missing_fields |-> Default(kw.missing_fields, <<>>),
           error_message |-> kw.error_message])

\* ExtractionPayload[T](**kw) with its validator check_data_consistency
ExtractionPayload_new(kw) ==
    IF kw.is_success /\ kw.data = None THEN Raised
    ELSE Built([is_success |-> kw.is_success,
                data |-> kw.data,
                missing_fields |-> Default(kw.missing_fields, <<>>),
                error_message |-> kw.error_message])

\* The default of the threshold parameter of is_actionable
is_actionable_default == Rat(8, 10)

\* Variant: the threshold must be exceeded
is_actionable_above(self, threshold) ==
    RGt(self.confidence, threshold) /\ ~self.needs_clarification

\* LLMDecisionMeta.is_actionable
is_actionable(self, threshold) ==
    RGe(self.confidence, threshold) /\ ~self.needs_clarification

ConfidenceInputs ==
    {Rat(0 - 1, 10), Rat(0 - 1, 10000), Rat(0, 1), Rat(13, 20), Rat(8, 10),
     Rat(1, 1), Rat(10001, 10000), Rat(11, 10)}

Texts == {<<>>, <<"o", "k">>, <<"a", "\"", "b">>, <<"\\", "n">>}

PayloadKwargs ==
    [is_success : BOOLEAN,
     data : Optional({Title(<<"b", "a", "t">>),
                      MovieQuery(None, None, None, None, Some(1999), None,
                                 Some(Rat(75, 10)))}),
     missing_fields : Optional({<<>>, << <<"t", "i", "t", "l", "e">> >>}),
     error_message : Optional({<<"n", "o">>})]

ValuesBuilt(results) == {r.value : r \in {x \in results : ~x.raised}}

ExtractionPayloads == ValuesBuilt({ExtractionPayload_new(kw) : kw \in PayloadKwargs})

\* A few payloads for the envelopes: a success, a failure, a failure with
\* partial data
EnvelopePayloads ==
    {p \in ExtractionPayloads :
        /\ p.error_message = (IF p.is_success THEN None ELSE Some(<<"n", "o">>))
        /\ p.missing_fields = (IF p.is_success THEN <<>>
                               ELSE << <<"t", "i", "t", "l", "e">> >>)
        /\ p.data # Some(Title(<<"b", "a", "t">>))}

DecisionKwargs ==
    [confidence : ConfidenceInputs,
     reasoning : {<<"o", "k">>},
     needs_clarification : Optional(BOOLEAN),
     clarification_prompt : Optional({<<"a", "\"", "b">>}),
     timestamp : Optional({Datetime(<<2025, 1, 2>>, <<3, 4, 5>>, 0, Some(0))}),
     payload : EnvelopePayloads]

Envelopes == ValuesBuilt({LLMDecision_new(kw) : kw \in DecisionKwargs})

ThresholdInputs == Optional({Rat(0, 1), Rat(13, 20), Rat(8, 10), Rat(1, 1), Rat(3, 2)})

\* ---- JSON: BaseModel.model_dump_json and BaseModel.model_validate_json ----

\* JSON values. A string carries its characters as they stand between the
\* quotes (escapes included); a number carries its decimal digits.
JsonNull == [t |-> "null"]

JsonBool(v) == [t |-> "bool", v |-> v]

JsonInt(v) == [t |-> "int", v |-> v]

JsonNumber(neg, int, frac) == [t |-> "number", neg |-> neg, int |-> int, frac |-> frac]

JsonString(chars) == [t |-> "string", chars |-> chars]

JsonIso(iso) == [t |-> "string", iso |-> iso]

JsonArray(items) == [t |-> "array", items |-> items]

JsonObject(members) == [t |-> "object", members |-> members]

\* The floats of the inputs have at most this many decimals
MaxDigits == 6

Abs(n) == IF n < 0 THEN 0 - n ELSE n

RECURSIVE FractionDigits(_, _, _)
\* The decimals of r/d (0 <= r < d), at most k of them
FractionDigits(r, d, k) ==
    IF r = 0 \/ k = 0 THEN <<>>
    ELSE <<(10 * r) \div d>> \o FractionDigits((10 * r) % d, d, k - 1)

\* Variant: one decimal only
FloatDigits_one_decimal(neg, n, d) ==
    JsonNumber(neg, n \div d, <<(10 * (n % d)) \div d>>)

\* A float is written with the decimals that give it back, and with ".0"
\* when it is whole
FloatDigits(neg, n, d) ==
    JsonNumber(neg, n \div d,
               IF n % d = 0 THEN <<0>> ELSE FractionDigits(n % d, d, MaxDigits))

FloatToJson(x) == FloatDigits(x[1] < 0, Abs(x[1]), x[2])

RECURSIVE DigitsValue(_)
DigitsValue(ds) ==
    IF ds = <<>> THEN 0
    ELSE 10 * DigitsValue(SubSeq(ds, 1, Len(ds) - 1)) + ds[Len(ds)]

Signed(neg, n) == IF neg THEN 0 - n ELSE n

\* A float field reads a JSON number, with or without decimals
FloatFromJson(j) ==
    IF j.t = "int" THEN Rat(j.v, 1)
    ELSE Rat(Signed(j.neg, j.int * 10 ^ Len(j.frac) + DigitsValue(j.frac)),
             10 ^ Len(j.frac))

RECURSIVE Escape_quotes_only(_)
\* Variant: the backslash is written as it is
Escape_quotes_only(s) ==
    IF s = <<>> THEN <<>>
    ELSE (IF Head(s) = "\"" THEN <<"\\", "\"">>
          ELSE IF Head(s) = "\n" THEN <<"\\", "n">>
          ELSE <<Head(s)>>) \o Escape_quotes_only(Tail(s))

RECURSIVE Escape(_)
\* The characters of a JSON string: quote, backslash and newline are escaped
Escape(s) ==
    IF s = <<>> THEN <<>>
    ELSE (IF Head(s) \in {"\"", "\\"} THEN <<"\\", Head(s)>>
          ELSE IF Head(s) = "\n" THEN <<"\\", "n">>
          ELSE <<Head(s)>>) \o Escape(Tail(s))

RECURSIVE Unescape(_)
Unescape(s) ==
    IF s = <<>> THEN <<>>
    ELSE IF Head(s) = "\\" /\ Len(s) >= 2
         THEN <<IF s[2] = "n" THEN "\n" ELSE s[2]>> \o Unescape(SubSeq(s, 3, Len(s)))
    ELSE <<Head(s)>> \o Unescape(Tail(s))

\* The UTC offset of an ISO 8601 string: none for a naive datetime, "Z" for
\* UTC, otherwise sign, hours and minutes
IsoOffset(tz) ==
    IF tz = None THEN [kind |-> "naive"]
    ELSE IF Get(tz) = 0 THEN [kind |-> "Z"]
    ELSE [kind |-> "offset", sign |-> IF Get(tz) < 0 THEN "-" ELSE "+",
          hh |-> Abs(Get(tz)) \div 60, mm |-> Abs(Get(tz)) % 60]

\* Variant: the offset is left out
DatetimeToJson_naive(dt) ==
    JsonIso([date |-> dt.date, time |-> dt.time,
             fraction |-> IF dt.microsecond = 0 THEN None ELSE Some(dt.microsecond),
             offset |-> [kind |-> "naive"]])

\* A datetime is written in ISO 8601; the fraction is left out when the
\* microsecond is 0
DatetimeToJson(dt) ==
    JsonIso([date |-> dt.date, time |-> dt.time,
             fraction |-> IF dt.microsecond = 0 THEN None ELSE Some(dt.microsecond),
             offset |-> IsoOffset(dt.tz)])

OffsetMinutes(offset) ==
    IF offset.kind = "naive" THEN None
    ELSE IF offset.kind = "Z" THEN Some(0)
    ELSE Some((IF offset.sign = "-" THEN 0 - 1 ELSE 1) * (offset.hh * 60 + offset.mm))

DatetimeFromJson(j) ==
    Datetime(j.iso.date, j.iso.time,
             IF j.iso.fraction = None THEN 0 ELSE Get(j.iso.fraction),
             OffsetMinutes(j.iso.offset))

\* Field(ge=0.0, le=10.0) of Movie.rating and of MovieQuery.min_rating
ValidRating(rating) == RGe(rating, <<0, 1>>) /\ RGe(<<10, 1>>, rating)

\* Movie(**kw)
Movie_new(kw) == IF ~ValidRating(kw.rating) THEN Raised ELSE Built(kw)

\* MovieQuery(**kw)
MovieQuery_new(kw) ==
    IF kw.min_rating # None /\ ~ValidRating(Get(kw.min_rating)) THEN Raised
    ELSE Built(kw)

\* ScoredCandidate[T](**kw), with its match_reason
ScoredCandidate_new(kw) == IF ~ValidScore(kw.score) THEN Raised ELSE Built(kw)

SelectionStrategy == {"highest_score", "user_specified", "llm_choice"}

\* SelectionPayload[T](**kw); every field but selected has a default
SelectionPayload_new(kw) ==
    Built([selected |-> kw.selected,
           alternatives |-> Default(kw.alternatives, <<>>),
           strategy |-> Default(kw.strategy, "highest_score"),
           is_ambiguous |-> Default(kw.is_ambiguous, FALSE),
           requires_confirmation |-> Default(kw.requires_confirmation, FALSE)])

\* The annotations of the fields
FloatField == [k |-> "float"]

IntField == [k |-> "int"]

BoolField == [k |-> "bool"]

StrField == [k |-> "str"]

IdField == [k |-> "id"]

DatetimeField == [k |-> "datetime"]

EnumField(values) == [k |-> "enum", values |-> values]

OptionalField(of) == [k |-> "optional", of |-> of]

ListField(of) == [k |-> "list", of |-> of]

ModelField(name, fields) == [k |-> "model", name |-> name, fields |-> fields]

ActorSchema == ModelField("Actor", [id |-> IdField, name |-> StrField])

MovieSchema ==
    ModelField("Movie",
               [id |-> IdField, title |-> StrField, year |-> IntField,
                director |-> StrField, genres |-> ListField(StrField),
                cast |-> ListField(ActorSchema), rating |-> FloatField])

MovieQuerySchema ==
    ModelField("MovieQuery",
               [title |-> OptionalField(StrField),
                actor_name |-> OptionalField(StrField),
                director_name |-> OptionalField(StrField),
                genre |-> OptionalField(StrField),
                year_from |-> OptionalField(IntField),
                year_to |-> OptionalField(IntField),
                min_rating |-> OptionalField(FloatField)])

ExtractionPayloadSchema(data) ==
    ModelField("ExtractionPayload",
               [is_success |-> BoolField, data |-> OptionalField(data),
                missing_fields |-> ListField(StrField),
                error_message |-> OptionalField(StrField)])

ScoredCandidateSchema(item) ==
    ModelField("ScoredCandidate",
               [item |-> item, score |-> FloatField,
                match_reason |-> OptionalField(StrField)])

SelectionPayloadSchema(item) ==
    ModelField("SelectionPayload",
               [selected |-> item,
                alternatives |-> ListField(ScoredCandidateSchema(item)),
                strategy |-> EnumField(SelectionStrategy),
                is_ambiguous |-> BoolField,
                requires_confirmation |-> BoolField])

LLMDecisionSchema(payload) ==
    ModelField("LLMDecision",
               [confidence |-> FloatField, reasoning |-> StrField,
                needs_clarification |-> BoolField,
                clarification_prompt |-> OptionalField(StrField),
                timestamp |-> DatetimeField, payload |-> payload])

\* The generic aliases the round trips are made with
Schema(name) ==
    IF name = "LLMDecision[ExtractionPayload[MovieQuery]]"
    THEN LLMDecisionSchema(ExtractionPayloadSchema(MovieQuerySchema))
    ELSE LLMDecisionSchema(SelectionPayloadSchema(MovieSchema))

RECURSIVE ToJson(_, _)
\* model_dump_json: the value of a field, written by its annotation
ToJson(s, v) ==
    CASE s.k = "float" -> FloatToJson(v)
      [] s.k = "int" -> JsonInt(v)
      [] s.k = "bool" -> JsonBool(v)
      [] s.k = "str" -> JsonString(Escape(v))
      [] s.k = "id" -> JsonString(Escape(<<v>>))
      [] s.k = "enum" -> JsonString(<<v>>)
      [] s.k = "datetime" -> DatetimeToJson(v)
      [] s.k = "optional" -> IF v = None THEN JsonNull ELSE ToJson(s.of, Get(v))
      [] s.k = "list" -> JsonArray([i \in 1..Len(v) |-> ToJson(s.of, v[i])])
      [] s.k = "model" ->
            JsonObject([f \in DOMAIN s.fields |-> ToJson(s.fields[f], v[f])])

\* The constructor of a model, given every field
Construct(name, v) ==
    CASE name = "LLMDecision" ->
            LLMDecision_new([v EXCEPT !.needs_clarification = Some(@),
                                      !.timestamp = Some(@)])
      [] name = "ExtractionPayload" ->
            ExtractionPayload_new([v EXCEPT !.missing_fields = Some(@)])
      [] name = "SelectionPayload" ->
            SelectionPayload_new([v EXCEPT !.alternatives = Some(@),
                                           !.strategy = Some(@),
                                           !.is_ambiguous = Some(@),
                                           !.requires_confirmation = Some(@)])
      [] name = "ScoredCandidate" -> ScoredCandidate_new(v)
      [] name = "MovieQuery" -> MovieQuery_new(v)
      [] name = "Movie" -> Movie_new(v)
      [] name = "Actor" -> Built(v)

SomeOf(r) == IF r.raised THEN Raised ELSE Built(Some(r.value))

ListOf(rs) ==
    IF \E i \in DOMAIN rs : rs[i].raised THEN Raised
    ELSE Built([i \in DOMAIN rs |-> rs[i].value])

ModelOf(name, rs) ==
    IF \E f \in DOMAIN rs : rs[f].raised THEN Raised
    ELSE Construct(name, [f \in DOMAIN rs |-> rs[f].value])

RECURSIVE FromJson(_, _)
\* model_validate_json: a field is read by its annotation, and a model is
\* built by its constructor, validators included
FromJson(s, j) ==
    CASE s.k = "float" ->
            IF j.t \in {"number", "int"} THEN Built(FloatFromJson(j)) ELSE Raised
      [] s.k = "int" -> IF j.t = "int" THEN Built(j.v) ELSE Raised
      [] s.k = "bool" -> IF j.t = "bool" THEN Built(j.v) ELSE Raised
      [] s.k = "str" ->
            IF j.t = "string" /\ "chars" \in DOMAIN j
            THEN Built(Unescape(j.chars)) ELSE Raised
      [] s.k = "id" ->
            IF j.t = "string" /\ "chars" \in DOMAIN j
            THEN Built(Unescape(j.chars)[1]) ELSE Raised
      [] s.k = "enum" ->
            IF j.t = "string" /\ "chars" \in DOMAIN j /\ j.chars[1] \in s.values
            THEN Built(j.chars[1]) ELSE Raised
      [] s.k = "datetime" ->
            IF j.t = "string" /\ "iso" \in DOMAIN j
            THEN Built(DatetimeFromJson(j)) ELSE Raised
      [] s.k = "optional" ->
            IF j.t = "null" THEN Built(None) ELSE SomeOf(FromJson(s.of, j))
      [] s.k = "list" ->
            IF j.t = "array"
            THEN ListOf([i \in DOMAIN j.items |-> FromJson(s.of, j.items[i])])
            ELSE Raised
      [] s.k = "model" ->
            IF j.t = "object"
            THEN ModelOf(s.name, [f \in DOMAIN s.fields |->
                                     FromJson(s.fields[f], j.members[f])])
            ELSE Raised

model_dump_json(schema, self) == ToJson(Schema(schema), self)

model_validate_json(schema, json) == FromJson(Schema(schema), json)

\* The longest list of alternatives in a selection payload
MaxAlternatives == 2

AlternativeCandidates ==
    << [item |-> MOVIES[3], score |-> Rat(8, 10),
        match_reason |-> Some(<<"a", "\"", "b">>)],
       [item |-> MOVIES[4], score |-> Rat(1, 1), match_reason |-> None],
       [item |-> MOVIES[7], score |-> Rat(3333, 10000),
        match_reason |-> Some(<<"\\", "n">>)] >>

SelectionKwargs ==
    [selected : {MOVIES[2]},
     alternatives : Optional({SubSeq(AlternativeCandidates, 1, n) :
                                 n \in 1..MaxAlternatives}),
     strategy : Optional({"user_specified"}),
     is_ambiguous : Optional({TRUE}),
     requires_confirmation : {None}]

SelectionPayloads == ValuesBuilt({SelectionPayload_new(kw) : kw \in SelectionKwargs})

TitlePayload ==
    [is_success |-> TRUE, data |-> Some(Title(<<"a", "\"", "b">>)),
     missing_fields |-> <<>>, error_message |-> None]

RoundTripKwargs(payloads) ==
    [confidence : {Rat(13, 20), Rat(1, 1)},
     reasoning : Texts \cup {<<"a", "\n">>},
     needs_clarification : Optional({TRUE}),
     clarification_prompt : Optional({<<"a", "\"", "b">>}),
     timestamp : Optional(Timestamps),
     payload : payloads]

RoundTripCalls(schema, payloads) ==
    {[fn |-> "round_trip", schema |-> schema, self |-> e, json |-> None,
      result |-> None, raised |-> FALSE] :
        e \in ValuesBuilt({LLMDecision_new(kw) : kw \in RoundTripKwargs(payloads)})}

ExtractionAlias == "LLMDecision[ExtractionPayload[MovieQuery]]"

SelectionAlias == "LLMDecision[SelectionPayload[Movie]]"

\* JSON texts as a caller may hand them to model_validate_json: those of two
\* envelopes, as dumped and with one value replaced
FailedExtraction ==
    [confidence |-> Rat(13, 20), reasoning |-> <<"o", "k">>,
     needs_clarification |-> FALSE, clarification_prompt |-> None,
     timestamp |-> Now,
     payload |-> [is_success |-> FALSE, data |-> None,
                  missing_fields |-> << <<"t", "i", "t", "l", "e">> >>,
                  error_message |-> Some(<<"n", "o">>)]]

AmbiguousSelection ==
    [confidence |-> Rat(13, 20), reasoning |-> <<"o", "k">>,
     needs_clarification |-> TRUE, clarification_prompt |-> Some(<<"o", "k">>),
     timestamp |-> Now,
     payload |-> [selected |-> MOVIES[2],
                  alternatives |-> SubSeq(AlternativeCandidates, 1, 2),
                  strategy |-> "highest_score", is_ambiguous |-> TRUE,
                  requires_confirmation |-> FALSE]]

ReplacedConfidences ==
    {FloatToJson(Rat(3, 2)), FloatToJson(Rat(0 - 1, 10)),
     FloatToJson(Rat(10001, 10000)), JsonInt(1), JsonInt(2), FloatToJson(Rat(0, 1))}

ExtractionTexts(j) ==
    {j, [j EXCEPT !.members.payload.members.is_success = JsonBool(TRUE)]}
    \cup {[j EXCEPT !.members.confidence = c] : c \in ReplacedConfidences}

SelectionTexts(j) ==
    {j}
    \cup {[j EXCEPT !.members.payload.members.alternatives.items[2].members.score = c] :
            c \in ReplacedConfidences}
    \cup {[j EXCEPT !.members.payload.members.selected.members.rating = c] :
            c \in {FloatToJson(Rat(21, 2)), JsonInt(10), FloatToJson(Rat(0 - 1, 10))}}
    \cup {[j EXCEPT !.members.payload.members.strategy = JsonString(<<"best">>)]}

ValidateCalls ==
    {[fn |-> "model_validate_json", schema |-> ExtractionAlias, json |-> Some(j),
      result |-> None, raised |-> FALSE] :
        j \in ExtractionTexts(model_dump_json(ExtractionAlias, FailedExtraction))}
    \cup
    {[fn |-> "model_validate_json", schema |-> SelectionAlias, json |-> Some(j),
      result |-> None, raised |-> FALSE] :
        j \in SelectionTexts(model_dump_json(SelectionAlias, AmbiguousSelection))}

ModelCalls ==
    {[fn |-> "LLMDecision", kw |-> kw, result |-> None, raised |-> FALSE] :
        kw \in DecisionKwargs}
    \cup
    {[fn |-> "ExtractionPayload", kw |-> kw, result |-> None, raised |-> FALSE] :
        kw \in PayloadKwargs}
    \cup
    {[fn |-> "is_actionable", self |-> e, threshold |-> t, result |-> None] :
        e \in Envelopes, t \in ThresholdInputs}
    \cup RoundTripCalls(ExtractionAlias, EnvelopePayloads \cup {TitlePayload})
    \cup RoundTripCalls(SelectionAlias, SelectionPayloads)
    \cup ValidateCalls

InitModels ==
    /\ state = InitialState
    /\ pc = "call"
    /\ path = <<>>
    /\ turns = 0
    /\ clarify_visits = 0
    /\ call \in ModelCalls

Outcome(c, built) ==
    IF built.raised THEN [c EXCEPT !.raised = TRUE]
    ELSE [c EXCEPT !.result = Some(built.value)]

ConstructLLMDecision ==
    /\ call.fn = "LLMDecision"
    /\ IsNone(call.result)
    /\ ~call.raised
    /\ call' = Outcome(call, LLMDecision_new(call.kw))
    /\ UNCHANGED <<state, pc, path, turns, clarify_visits>>

ConstructExtractionPayload ==
    /\ call.fn = "ExtractionPayload"
    /\ IsNone(call.result)
    /\ ~call.raised
    /\ call' = Outcome(call, ExtractionPayload_new(call.kw))
    /\ UNCHANGED <<state, pc, path, turns, clarify_visits>>

CallIsActionable ==
    /\ call.fn = "is_actionable"
    /\ IsNone(call.result)
    /\ call' = [call EXCEPT !.result =
                   Some(is_actionable(call.self,
                                      Default(call.threshold, is_actionable_default)))]
    /\ UNCHANGED <<state, pc, path, turns, clarify_visits>>

\* original.model_dump_json()
DumpJson ==
    /\ call.fn = "round_trip"
    /\ call.json = None
    /\ call' = [call EXCEPT !.json = Some(model_dump_json(call.schema, call.self))]
    /\ UNCHANGED <<state, pc, path, turns, clarify_visits>>

\* LLMDecision[P].model_validate_json(json_str)
ValidateJson ==
    /\ call.fn \in {"round_trip", "model_validate_json"}
    /\ call.json # None
    /\ call.result = None
    /\ ~call.raised
    /\ call' = Outcome(call, model_validate_json(call.schema, Get(call.json)))
    /\ UNCHANGED <<state, pc, path, turns, clarify_visits>>

NextModels ==
    \/ ConstructLLMDecision
    \/ ConstructExtractionPayload
    \/ CallIsActionable
    \/ DumpJson
    \/ ValidateJson

SpecModels == InitModels /\ [][NextModels]_vars

----------------------------------------------------------------------------
(* FundAccountingClient._poll_until_complete *)

TaskStatus == {"Pending", "Running", "Completed", "Failed", "Error"}

\* The largest poll_max_attempts of the clients polled
MaxPollAttempts == 4

\* What a status request comes back with: a task with one of the statuses, a
\* body TaskResponse.model_validate refuses, or an error of the transport,
\* which _request raises as TransportError
PollResponses == TaskStatus \cup {"invalid", "TransportError"}

\* A call of _poll_until_complete: `at` is the place in its body, responses
\* the outcomes of the status requests made so far
PollCalls ==
    {[fn |-> "_poll_until_complete", poll_max_attempts |-> n, attempt |-> 1,
      at |-> "for", responses |-> <<>>, outcome |-> None] :
        n \in 0..MaxPollAttempts}

Leave(c, outcome) == [c EXCEPT !.at = "done", !.outcome = Some(outcome)]

\* Variant: an error of the transport is followed by another attempt
HandleResponse_retrying(c, r) ==
    CASE r = "TransportError" -> [c EXCEPT !.at = "sleep"]
      [] r = "invalid" -> Leave(c, "ValidationError")
      [] r = "Completed" -> Leave(c, "returned")
      [] r \in {"Failed", "Error"} -> Leave(c, "TaskFailedError")
      [] OTHER -> [c EXCEPT !.at = "sleep"]

\* The body of the loop after the request
HandleResponse(c, r) ==
    CASE r = "TransportError" -> Leave(c, "TransportError")
      [] r = "invalid" -> Leave(c, "ValidationError")
      [] r = "Completed" -> Leave(c, "returned")
      [] r \in {"Failed", "Error"} -> Leave(c, "TaskFailedError")
      [] OTHER -> [c EXCEPT !.at = "sleep"]

InitPoll ==
    /\ state = InitialState
    /\ pc = "call"
    /\ path = <<>>
    /\ turns = 0
    /\ clarify_visits = 0
    /\ call \in PollCalls

\* for attempt in range(1, poll_max_attempts + 1), and the raise after it
PollFor ==
    /\ call.fn = "_poll_until_complete"
    /\ call.at = "for"
    /\ call' = IF call.attempt <= call.poll_max_attempts
               THEN [call EXCEPT !.at = "request"]
               ELSE Leave(call, "TaskTimeoutError")
    /\ UNCHANGED <<state, pc, path, turns, clarify_visits>>

\* await self._request("GET", ...) and what the body does with the answer
PollRequest ==
    /\ call.fn = "_poll_until_complete"
    /\ call.at = "request"
    /\ \E r \in PollResponses :
          call' = HandleResponse([call EXCEPT !.responses = Append(@, r)], r)
    /\ UNCHANGED <<state, pc, path, turns, clarify_visits>>

\* await asyncio.sleep(self._poll_interval)
PollSleep ==
    /\ call.fn = "_poll_until_complete"
    /\ call.at = "sleep"
    /\ call' = [call EXCEPT !.at = "for", !.attempt = @ + 1]
    /\ UNCHANGED <<state, pc, path, turns, clarify_visits>>

NextPoll == PollFor \/ PollRequest \/ PollSleep

\* The event loop runs the coroutine on, and every request comes back
SpecPoll == InitPoll /\ [][NextPoll]_vars /\ WF_vars(NextPoll)

----------------------------------------------------------------------------
(* OAuth2ClientCredentials: concurrent auth flows on one instance *)

\* The callers whose auth flows run concurrently on the instance
MaxCallers == 3
Callers == 1..MaxCallers

\* The monotonic clock advances up to MaxClock
MaxClock == 2

\* The largest expires_in a token response carries
MaxExpiresIn == 2
ExpiresIn == 0..MaxExpiresIn

\* The early_expiry the instance is constructed with
EarlyExpiries == {0, 1}

\* What httpx feeds back for a token request: the transport failed (httpx
\* closes the generator), an error status, a body without access_token, or
\* a token with its expires_in
TokenResponses ==
    {[kind |-> k, expires_in |-> 0] :
        k \in {"transport_error", "http_error", "no_access_token"}}
    \cup {[kind |-> "ok", expires_in |-> e] : e \in ExpiresIn}

\* self._token is None or time.monotonic() >= self._token_expiry
_is_expired(c) == IsNone(c.token) \/ c.now >= c.token_expiry

\* A caller of the auth flow: `seen` is the token at its first check, header
\* the token of the Authorization header it set, considered_expired what
\* _is_expired said at the moment the header was set
NewCaller ==
    [at |-> "start", seen |-> None, header |-> None,
     considered_expired |-> FALSE, requested |-> FALSE,
     refreshed_meanwhile |-> FALSE]

AuthInstances ==
    {[fn |-> "auth_flow", flow |-> f, early_expiry |-> x, token |-> None,
      token_expiry |-> 0, lock |-> None, now |-> 0, issued |-> 0,
      callers |-> [p \in Callers |-> NewCaller]] :
        f \in {"async", "sync"}, x \in EarlyExpiries}

\* request.headers["Authorization"] = f"Bearer {self._token}"; yield request
SetHeader(c, p) ==
    [c EXCEPT !.callers[p].at = "done",
              !.callers[p].header = c.token,
              !.callers[p].considered_expired = _is_expired(c)]

\* A coroutine reaches the header without an await in between; a thread can
\* be preempted before it
ToHeader(c, p) ==
    IF c.flow = "async" THEN SetHeader(c, p)
    ELSE [c EXCEPT !.callers[p].at = "header"]

\* _update_token on a response that carries a token
_update_token(c, response) ==
    [c EXCEPT !.token = Some(c.issued + 1),
              !.issued = @ + 1,
              !.token_expiry = c.now + response.expires_in - c.early_expiry]

InitAuth ==
    /\ state = InitialState
    /\ pc = "call"
    /\ path = <<>>
    /\ turns = 0
    /\ clarify_visits = 0
    /\ call \in AuthInstances

\* The first `if self._is_expired()`
AuthStart(p) ==
    /\ call.fn = "auth_flow"
    /\ call.callers[p].at = "start"
    /\ call' = IF _is_expired(call)
               THEN [call EXCEPT !.callers[p].at = "waiting",
                                 !.callers[p].seen = call.token]
               ELSE ToHeader([call EXCEPT !.callers[p].seen = call.token], p)
    /\ UNCHANGED <<state, pc, path, turns, clarify_visits>>

\* The lock is taken and _is_expired is checked again: the token request is
\* yielded with the lock held, or the block is left and the lock released
AuthAcquire(p) ==
    /\ call.fn = "auth_flow"
    /\ call.callers[p].at = "waiting"
    /\ call.lock = None
    /\ LET waited == [call EXCEPT !.callers[p].refreshed_meanwhile =
                                       call.token # call.callers[p].seen]
       IN  call' = IF _is_expired(call)
                   THEN [waited EXCEPT !.lock = Some(p),
                                       !.callers[p].at = "in_flight",
                                       !.callers[p].requested = TRUE]
                   ELSE ToHeader(waited, p)
    /\ UNCHANGED <<state, pc, path, turns, clarify_visits>>

\* The token response is fed back into the generator: _update_token raises
\* or stores the token, and the lock's block is left either way
AuthTokenResponse(p) ==
    /\ call.fn = "auth_flow"
    /\ call.callers[p].at = "in_flight"
    /\ \E response \in TokenResponses :
          call' = IF response.kind = "ok"
                  THEN ToHeader([_update_token(call, response)
                                    EXCEPT !.lock = None], p)
                  ELSE [call EXCEPT !.lock = None,
                                    !.callers[p].at = "failed"]
    /\ UNCHANGED <<state, pc, path, turns, clarify_visits>>

\* A thread of the sync flow sets the header
AuthSetHeader(p) ==
    /\ call.fn = "auth_flow"
    /\ call.callers[p].at = "header"
    /\ call' = SetHeader(call, p)
    /\ UNCHANGED <<state, pc, path, turns, clarify_visits>>

\* time.monotonic() advances
AuthTick ==
    /\ call.fn = "auth_flow"
    /\ call.now < MaxClock
    /\ call' = [call EXCEPT !.now = @ + 1]
    /\ UNCHANGED <<state, pc, path, turns, clarify_visits>>

NextAuth ==
    \/ \E p \in Callers : AuthStart(p)
    \/ \E p \in Callers : AuthAcquire(p)
    \/ \E p \in Callers : AuthTokenResponse(p)
    \/ \E p \in Callers : AuthSetHeader(p)
    \/ AuthTick

SpecAuth == InitAuth /\ [][NextAuth]_vars

Returned(fn) == call.fn = fn /\ ~IsNone(call.result)

Last(s) == s[Len(s)]

----------------------------------------------------------------------------
(* Properties of the conversation and of the routing functions *)

\* C1: over a whole conversation the clarify node runs at most
\* MAX_CLARIFICATION_ATTEMPTS + 1 times, so no conversation has more than 4
\* turns that end at CLARIFY.
C1_ClarifyVisitsBounded == clarify_visits <= MAX_CLARIFICATION_ATTEMPTS + 1

\* A turn that ran search on an ambiguous set after three clarify visits and
\* ended at respond
C1_Witness ==
    /\ clarify_visits = 3
    /\ pc = "END"
    /\ path = <<"extract", "search", "respond">>
    /\ Len(state.candidates) >= 2

\* C2: route_after_search on a non-empty candidate list with
\* clarification_count >= MAX_CLARIFICATION_ATTEMPTS returns "respond",
\* whatever the candidates and their scores.
C2_CeilingForcesRespond ==
    ( /\ Returned("route_after_search")
      /\ call.st.candidates # <<>>
      /\ call.st.clarification_count >= 3 )
    => Get(call.result) = "respond"

\* The forced response of Scenario D: count 3, two candidates in a tie
C2_Witness ==
    /\ Returned("route_after_search")
    /\ call.st.clarification_count = 3
    /\ Len(call.st.candidates) >= 2
    /\ call.st.candidates[1].score = call.st.candidates[2].score
    /\ Get(call.result) = "respond"

C4_RouteAfterExtractionRules ==
    Returned("route_after_extraction") =>
        LET st == call.st
            r == Get(call.result)
            HasFilter(q) == \E f \in DOMAIN q : q[f] # None
            Ready == /\ st.extraction_decision # None
                     /\ ~Get(st.extraction_decision).needs_clarification
                     /\ st.query # None
                     /\ HasFilter(Get(st.query))
        IN  r = (IF Ready THEN "search" ELSE "respond")

\* Scenario E: needs_clarification with confidence 0.65 and a non-empty query
C4_Witness ==
    /\ Returned("route_after_extraction")
    /\ call.st.extraction_decision # None
    /\ Get(call.st.extraction_decision).needs_clarification
    /\ Get(call.st.extraction_decision).confidence = <<13, 20>>
    /\ call.st.query # None
    /\ ~is_empty(Get(call.st.query))
    /\ Get(call.result) = "respond"

\* C5: a turn starts at extract and follows only extract -> {search, respond}
\* and search -> {respond, clarify}; clarify and respond end the turn, so a
\* turn runs each node at most once, at most three nodes, and never runs
\* extract after clarify.
C5_TurnShape ==
    /\ path \in { <<>>, <<"extract">>, <<"extract", "search">>,
                  <<"extract", "respond">>, <<"extract", "search", "respond">>,
                  <<"extract", "search", "clarify">> }
    /\ pc = "extract" => path = <<>>
    /\ pc = "search" => path = <<"extract">>
    /\ pc = "clarify" => path = <<"extract", "search">>
    /\ pc = "respond" => path \in {<<"extract">>, <<"extract", "search">>}
    /\ pc = "END" => \/ turns = 0 /\ path = <<>>
                     \/ path # <<>> /\ Last(path) \in {"clarify", "respond"}

\* The next invocation re-enters extract after a turn that ended at clarify
C5_Witness ==
    /\ pc = "extract"
    /\ turns = 2
    /\ clarify_visits = 1

\* C6: a visit of the clarify node adds 1 to clarification_count, sets
\* needs_clarification, appends one message whose options are the first
\* min(5, n) candidates in list order and leaves query, candidates,
\* selected_movie and extraction_decision alone; no other step changes
\* clarification_count, which so equals the number of clarify visits.
C6_ClarifyEffect ==
    /\ [][ IF pc = "clarify"
           THEN /\ state'.clarification_count = state.clarification_count + 1
                /\ state'.needs_clarification = TRUE
                /\ Len(state'.messages) = Len(state.messages) + 1
                /\ SubSeq(state'.messages, 1, Len(state.messages)) = state.messages
                /\ LET m == Last(state'.messages)
                       n == Len(state.candidates)
                   IN  n > 0 =>
                         /\ m.role = "ai"
                         /\ m.kind = "clarify_options"
                         /\ Len(m.options) = (IF n < 5 THEN n ELSE 5)
                         /\ \A i \in 1..Len(m.options) :
                               m.options[i] = state.candidates[i].item.id
                /\ state'.query = state.query
                /\ state'.candidates = state.candidates
                /\ state'.selected_movie = state.selected_movie
                /\ state'.extraction_decision = state.extraction_decision
           ELSE state'.clarification_count = state.clarification_count ]_vars
    /\ [](state.clarification_count = clarify_visits)

\* A clarify visit on six candidates, five of them shown
C6_Witness ==
    /\ pc = "END"
    /\ path = <<"extract", "search", "clarify">>
    /\ Len(state.candidates) = 6
    /\ Len(Last(state.messages).options) = 5
    /\ state.clarification_count = 2

\* C7: the respond node describes selected_movie if it is set, else reports
\* not-found if there are no candidates, else describes candidates[0], which
\* is a top-scoring candidate; it sets needs_clarification to false and leaves
\* clarification_count, query, candidates and selected_movie alone.
C7_RespondEffect ==
    [][ (pc = "respond" /\ pc' = "END") =>
          /\ state'.messages = Append(state.messages,
                IF state.selected_movie # None
                THEN [role |-> "ai", kind |-> "movie_response",
                      movie |-> Get(state.selected_movie).id]
                ELSE IF state.candidates = <<>>
                THEN [role |-> "ai", kind |-> "not_found_response"]
                ELSE [role |-> "ai", kind |-> "movie_response",
                      movie |-> state.candidates[1].item.id])
          /\ \A i \in 1..Len(state.candidates) :
                RGe(state.candidates[1].score, state.candidates[i].score)
          /\ state'.needs_clarification = FALSE
          /\ state'.clarification_count = state.clarification_count
          /\ state'.query = state.query
          /\ state'.candidates = state.candidates
          /\ state'.selected_movie = state.selected_movie ]_vars

\* The best-effort response at the ceiling: several candidates, none selected
C7_Witness ==
    /\ pc = "END"
    /\ path = <<"extract", "search", "respond">>
    /\ state.clarification_count = 3
    /\ Len(state.candidates) >= 2
    /\ state.selected_movie = None
    /\ Last(state.messages) =
           [role |-> "ai", kind |-> "movie_response",
            movie |-> state.candidates[1].item.id]

\* The message that asks the clarification question of a decision
ClarificationQuestionMessage(prompt) ==
    [role |-> "ai", kind |-> "clarification_question", prompt |-> prompt]

\* C8: when extract routes to respond because the decision needs
\* clarification, the message of the turn is the decision's clarification
\* question.
C8_ClarificationQuestionAsked ==
    ( /\ pc = "END"
      /\ path = <<"extract", "respond">>
      /\ state.extraction_decision # None
      /\ Get(state.extraction_decision).needs_clarification )
    => Last(state.messages) =
           ClarificationQuestionMessage(Get(state.extraction_decision).clarification_prompt)

\* C9: a failure of the extraction call does not leave the graph as an
\* exception: the turn goes on to respond.
C9_ExtractionFailureHandled == ~(pc = "raised" /\ path = <<"extract">>)

\* The candidates of a title-only query none of whose movies has a similar
\* or containing title, or of a year range that starts after every movie
NoMovieMatches(movies, query) ==
    \/ /\ query.title # None
       /\ \A i \in 1..Len(movies) :
             /\ RLt(_similarity(Get(query.title), movies[i].title), <<1, 2>>)
             /\ ~Contains(Lower(movies[i].title), Lower(Get(query.title)))
             /\ ~Contains(Lower(Get(query.title)), Lower(movies[i].title))
    \/ /\ query.year_from # None
       /\ \A i \in 1..Len(movies) : movies[i].year < Get(query.year_from)

\* The conversation and MovieService.search on a search that matches nothing
NoMatchInConversation ==
    /\ ~(pc = "raised" /\ path = <<"extract", "search">>)
    /\ ( /\ Len(path) >= 2
         /\ path[2] = "search"
         /\ pc # "raised"
         /\ state.query # None
         /\ NoMovieMatches(MOVIES, Get(state.query)) )
       => state.candidates = <<>>
    /\ (path = <<"extract", "search">> /\ state.candidates = <<>>)
       => (state.selected_movie = None /\ pc = "respond")
    /\ (pc = "END" /\ path = <<"extract", "search", "respond">> /\ state.candidates = <<>>)
       => Last(state.messages) = [role |-> "ai", kind |-> "not_found_response"]
    /\ call.fn = "MovieService.search"
       => /\ ~call.raised
          /\ ( /\ call.result # None
               /\ call.movies = <<>> \/ NoMovieMatches(call.movies, call.query) )
             => Get(call.result) = <<>>

\* C10 as stated: a search that matches nothing never raises; for a query no
\* item matches and for an empty corpus MovieService.search and
\* SearchableList.search return an empty result, the search node stores no
\* candidates and no selection, route_after_search returns "respond" and the
\* turn ends with the not-found response.
C10_NoMatchReturnsEmpty ==
    /\ NoMatchInConversation
    /\ (call.fn = "SearchableList.search" /\ call.result # None)
       => ( ( \/ call.items = <<>>
              \/ \A i \in 1..Len(call.scores) : call.scores[i] = <<0, 1>> )
            => Get(call.result) = <<>> )

\* C10, amended: as above for the conversation and MovieService.search;
\* SearchableList.search returns an empty result for an empty corpus, and for
\* a non-empty one it returns min(limit, n) hits with scores in [0, 1] sorted
\* high to low, also when the query scores 0 against every item.
C10_NoMatchIsNormal ==
    /\ NoMatchInConversation
    /\ (call.fn = "SearchableList.search" /\ call.result # None)
       => LET hits == Get(call.result)
          IN  /\ call.items = <<>> => hits = <<>>
              /\ Len(hits) = (IF call.limit < Len(call.items)
                              THEN call.limit ELSE Len(call.items))
              /\ \A i \in 1..Len(hits) :
                    /\ ValidScore(hits[i].score)
                    /\ \E j \in 1..Len(call.items) : hits[i].item = call.items[j]
                    /\ i > 1 => RGe(hits[i - 1].score, hits[i].score)

\* A turn whose search matched nothing, after a turn that selected a movie
C10_Witness ==
    /\ pc = "END"
    /\ path = <<"extract", "search", "respond">>
    /\ state.candidates = <<>>
    /\ state.selected_movie = None
    /\ state.query # None
    /\ Len(state.messages) = 4
    /\ state.messages[2].kind = "movie_response"
    /\ Last(state.messages) = [role |-> "ai", kind |-> "not_found_response"]
C12_NearTieNeverSuper ==
    ( /\ HasProperties
      /\ call.fn = "SearchableList.search"
      /\ call.limit >= 1
      /\ \E i, j \in 1..Len(call.scores) :
            /\ i # j
            /\ \A k \in 1..Len(call.scores) : RGe(call.scores[i], call.scores[k])
            /\ RLt(RSub(Round4(RDivInt(call.scores[i], 100)),
                        Round4(RDivInt(call.scores[j], 100))), <<1, 10>>) )
    => Get(call.props).super_match = None

\* C13: candidates of a result set holds at most 5 items, each of a hit that
\* scores >= 0.80, in score-descending order: they are exactly the first
\* min(5, k) of the k hits that score >= 0.80. has_candidate_match is true
\* iff candidates is non-empty.
C13_CandidatesRule ==
    HasProperties =>
        LET p == Get(call.props)
            h == p.iter
            c == p.candidates
            k == Cardinality({i \in 1..Len(h) : RGe(h[i].score, <<4, 5>>)})
        IN  /\ Len(c) <= 5
            /\ Len(c) = (IF k < 5 THEN k ELSE 5)
            /\ \A i \in 1..Len(c) :
                  /\ c[i] = h[i].item
                  /\ RGe(h[i].score, <<4, 5>>)
                  /\ i > 1 => RGe(h[i - 1].score, h[i].score)
            /\ p.has_candidate_match = (c # <<>>)

\* Six hits that all score >= 0.80, given out of order: five candidates
C13_Witness ==
    /\ HasProperties
    /\ call.fn = "SearchResults"
    /\ Len(call.hits) = 6
    /\ \A i \in 1..6 : RGe(call.hits[i].score, <<4, 5>>)
    /\ RLt(call.hits[1].score, call.hits[6].score)
    /\ Len(Get(call.props).candidates) = 5

\* C14: for hits passed to SearchResults in any order, iteration yields them
\* in non-increasing score order, the result is a permutation of the input,
\* hits of equal score keep their input order, and best is the first hit, or
\* None for an empty set.
C14_SortedStablePermutation ==
    (HasProperties /\ call.fn = "SearchResults") =>
        LET p == Get(call.props)
            h == p.iter
            Position(hit) == hit.item.id
        IN  /\ \A i \in 1..(Len(h) - 1) : RGe(h[i].score, h[i + 1].score)
            /\ Len(h) = Len(call.hits)
            /\ \A i \in 1..Len(call.hits) :
                  Cardinality({j \in 1..Len(h) : h[j] = call.hits[i]}) = 1
            /\ \A i, j \in 1..Len(h) :
                  (i < j /\ h[i].score = h[j].score) => Position(h[i]) < Position(h[j])
            /\ p.best = (IF h = <<>> THEN None ELSE Some(h[1]))

\* Hits given lowest first, the two highest tied: the tie keeps input order
C14_Witness ==
    /\ HasProperties
    /\ call.fn = "SearchResults"
    /\ Len(call.hits) = 3
    /\ RLt(call.hits[1].score, call.hits[2].score)
    /\ call.hits[2].score = call.hits[3].score
    /\ Get(call.props).iter = <<call.hits[2], call.hits[3], call.hits[1]>>
    /\ Get(call.props).best = Some(call.hits[2])

\* The score a hit of SearchableList.search carries for corpus item i
HitScore(i) == Round4(RDivInt(call.scores[i], 100))

\* C15: SearchableList.search(query, limit) returns min(limit, |corpus|)
\* hits, none for an empty corpus; they are the highest-scoring items: no
\* omitted item scores strictly higher than a returned one, and hits that tie
\* on their rounded score are in corpus order.
C15_TopLimitInCorpusOrder ==
    (call.fn = "SearchableList.search" /\ call.result # None) =>
        LET h == Get(call.result)
            n == Len(call.items)
            Returned_items == {h[i].item.id : i \in 1..Len(h)}
        IN  /\ Len(h) = (IF call.limit < n THEN call.limit ELSE n)
            /\ \A i \in 1..Len(h) :
                  /\ h[i].item.id \in 1..n
                  /\ h[i].score = HitScore(h[i].item.id)
            /\ Cardinality(Returned_items) = Len(h)
            /\ \A k \in (1..n) \ Returned_items : \A i \in 1..Len(h) :
                  RGe(h[i].score, HitScore(k))
            /\ \A i, j \in 1..Len(h) :
                  (i < j /\ h[i].score = h[j].score) => h[i].item.id < h[j].item.id

\* C16: every score the matchers produce lies in [0, 1]: a hit of
\* SearchableList.search carries round(value / 100, 4) of a scorer value in
\* [0, 100], and MovieService.search and MovieService.fuzzy_match_title build
\* only candidates with a score in [0, 1], so the validation of
\* ScoredCandidate rejects none of them.
C16_ScoresInUnitInterval ==
    /\ (call.fn = "SearchableList.search" /\ call.result # None) =>
          \A i \in 1..Len(Get(call.result)) :
             LET hit == Get(call.result)[i]
                 value == call.scores[hit.item.id]
             IN  \* a multiple of 0.0001 within 0.00005 of value / 100
                 /\ 10000 % hit.score[2] = 0
                 /\ RGe(RAdd(hit.score, <<1, 20000>>), RDivInt(value, 100))
                 /\ RGe(RAdd(RDivInt(value, 100), <<1, 20000>>), hit.score)
                 /\ RGe(hit.score, <<0, 1>>)
                 /\ RGe(<<1, 1>>, hit.score)
    /\ call.fn \in {"MovieService.search", "MovieService.fuzzy_match_title"} =>
          /\ ~call.raised
          /\ call.result # None =>
                \A i \in 1..Len(Get(call.result)) :
                   /\ RGe(Get(call.result)[i].score, <<0, 1>>)
                   /\ RGe(<<1, 1>>, Get(call.result)[i].score)
    /\ ( /\ call.fn = "MovieService.search"
         /\ call.result # None
         /\ \A f \in DOMAIN call.query : call.query[f] = None )
       => \A i \in 1..Len(Get(call.result)) :
             Get(call.result)[i].score = RDivInt(Get(call.result)[i].item.rating, 10)

\* A candidate whose score is the mean of two criterion scores and equals 1
C16_Witness ==
    /\ call.fn = "MovieService.search"
    /\ call.result # None
    /\ call.query.title # None
    /\ call.query.director_name # None
    /\ Get(call.result) # <<>>
    /\ Get(call.result)[1].score = <<1, 1>>

\* C17: is_actionable(t) is true exactly when confidence >= t and
\* needs_clarification is false, with t = 0.8 when no threshold is given; the
\* call leaves the envelope as it was.
C17_IsActionableRule ==
    /\ [](Returned("is_actionable") =>
             LET t == IF call.threshold = None THEN <<4, 5>> ELSE Get(call.threshold)
             IN  Get(call.result) =
                    (RGe(call.self.confidence, t) /\ ~call.self.needs_clarification))
    /\ [][call.fn = "is_actionable" => call'.self = call.self]_vars

\* Confidence exactly at the default threshold is actionable
C17_Witness ==
    /\ Returned("is_actionable")
    /\ call.threshold = None
    /\ call.self.confidence = <<4, 5>>
    /\ ~call.self.needs_clarification
    /\ Get(call.result) = TRUE

Finished(fn) == call.fn = fn /\ (call.raised \/ call.result # None)

\* C18: constructing a decision envelope succeeds for every confidence in
\* [0, 1], the endpoints included, and keeps that confidence; for every
\* confidence below 0 or above 1 it raises and no envelope is built.
C18_ConfidenceValidated ==
    Finished("LLMDecision") =>
        IF RGe(call.kw.confidence, <<0, 1>>) /\ RGe(<<1, 1>>, call.kw.confidence)
        THEN /\ ~call.raised
             /\ Get(call.result).confidence = call.kw.confidence
        ELSE /\ call.raised
             /\ call.result = None

\* A confidence of 1.0001 is rejected
C18_Witness ==
    /\ Finished("LLMDecision")
    /\ call.kw.confidence = <<10001, 10000>>
    /\ call.raised
    /\ call.result = None

\* C19: constructing an ExtractionPayload with is_success true and no data
\* raises; with is_success false it never raises, with or without data; every
\* payload built has data whenever is_success is true.
C19_SuccessRequiresData ==
    /\ Finished("ExtractionPayload") =>
          /\ (call.kw.is_success /\ call.kw.data = None) => call.raised
          /\ ~call.kw.is_success => ~call.raised
          /\ call.result # None =>
                (Get(call.result).is_success => Get(call.result).data # None)
    /\ (call.fn = "LLMDecision" /\ call.result # None) =>
          (Get(call.result).payload.is_success => Get(call.result).payload.data # None)

\* A failed extraction without data is built
C19_Witness ==
    /\ Finished("ExtractionPayload")
    /\ ~call.kw.is_success
    /\ call.kw.data = None
    /\ call.result # None
    /\ Get(call.result).data = None

\* The values a JSON text gives that a constructor refuses
JsonRefused(j) ==
    \/ ~ValidConfidence(FloatFromJson(j.members.confidence))
    \/ /\ "is_success" \in DOMAIN j.members.payload.members
       /\ j.members.payload.members.is_success.v
       /\ j.members.payload.members.data.t = "null"
    \/ /\ "selected" \in DOMAIN j.members.payload.members
       /\ \/ ~ValidRating(FloatFromJson(j.members.payload.members.selected.members.rating))
          \/ j.members.payload.members.strategy.chars[1] \notin SelectionStrategy
          \/ \E i \in DOMAIN j.members.payload.members.alternatives.items :
                ~ValidScore(FloatFromJson(
                    j.members.payload.members.alternatives.items[i].members.score))

NonIncreasingScores(candidates) ==
    \A i \in 1..Len(candidates) : \A j \in i..Len(candidates) :
        RGe(candidates[i].score, candidates[j].score)

\* C21: the list MovieService.search returns (for the empty query too, which
\* gives every movie by rating) and the list MovieService.fuzzy_match_title
\* returns are in non-increasing score order: the first candidate has a
\* highest score and the second a highest among the rest.
C21_ResultsNonIncreasing ==
    (/\ call.fn \in {"MovieService.search", "MovieService.fuzzy_match_title"}
     /\ ~IsNone(call.result)) =>
        /\ NonIncreasingScores(Get(call.result))
        /\ \A i \in 1..Len(Get(call.result)) :
              RGe(Get(call.result)[1].score, Get(call.result)[i].score)
        /\ \A i \in 2..Len(Get(call.result)) :
              RGe(Get(call.result)[2].score, Get(call.result)[i].score)

C21_Witness ==
    /\ call.fn = "MovieService.search"
    /\ ~IsNone(call.result)
    /\ ~is_empty(call.query)
    /\ Len(Get(call.result)) >= 3
    /\ Get(call.result) # SearchLoop(call.movies, call.query, Len(call.movies))

\* What the query asks of a movie, field by field
C22_Asked(movie, query) ==
    /\ IsNone(query.year_from) \/ movie.year >= Get(query.year_from)
    /\ IsNone(query.year_to) \/ movie.year <= Get(query.year_to)
    /\ IsNone(query.min_rating) \/ RGe(movie.rating, Get(query.min_rating))
    /\ IsNone(query.genre)
       \/ \E i \in 1..Len(movie.genres) : Lower(movie.genres[i]) = Lower(Get(query.genre))
    /\ IsNone(query.title)
       \/ RGe(_contains_match(movie.title, Get(query.title)), Rat(5, 10))
    /\ IsNone(query.actor_name)
       \/ \E i \in 1..Len(movie.cast) :
             RGe(_contains_match(movie.cast[i].name, Get(query.actor_name)), Rat(5, 10))
    /\ IsNone(query.director_name)
       \/ RGe(_contains_match(movie.director, Get(query.director_name)), Rat(5, 10))

\* C22: for a query that is not empty, MovieService.search returns a movie of
\* the catalogue if and only if it meets every set field of the query (year
\* range, minimum rating, genre ignoring case, title, best cast member and
\* director with a score of at least 0.5), and returns it once.
C22_AndFilter ==
    (/\ call.fn = "MovieService.search"
     /\ ~IsNone(call.result)
     /\ ~is_empty(call.query)) =>
        /\ \A i \in 1..Len(call.movies) :
              Cardinality({k \in 1..Len(Get(call.result)) :
                              Get(call.result)[k].item = call.movies[i]})
                  = (IF C22_Asked(call.movies[i], call.query) THEN 1 ELSE 0)
        /\ \A k \in 1..Len(Get(call.result)) :
              \E i \in 1..Len(call.movies) : Get(call.result)[k].item = call.movies[i]

C22_Witness ==
    /\ call.fn = "MovieService.search"
    /\ ~IsNone(call.result)
    /\ ~IsNone(call.query.director_name)
    /\ ~IsNone(call.query.year_to)
    /\ ~IsNone(call.query.min_rating)
    /\ Len(Get(call.result)) >= 2
    /\ Len(Get(call.result)) < Len(call.movies)

\* C23: a visit of EXTRACT with messages in the history replaces query by
\* the data of the new decision's payload when the payload is a success and
\* by None otherwise, replaces extraction_decision and needs_clarification by
\* the new decision and its flag, and leaves candidates, selected_movie,
\* clarification_count and messages as they were.
C23_ExtractReplacesQuery ==
    [][(pc = "extract" /\ state.messages # <<>> /\ pc' # "raised") =>
          /\ \E d \in DialogueDecisions :
                /\ state'.extraction_decision = Some(d)
                /\ state'.needs_clarification = d.needs_clarification
                /\ state'.query = (IF d.payload.is_success THEN d.payload.data ELSE None)
          /\ state'.candidates = state.candidates
          /\ state'.selected_movie = state.selected_movie
          /\ state'.clarification_count = state.clarification_count
          /\ state'.messages = state.messages]_vars

C23_Witness ==
    /\ path = <<"extract">>
    /\ turns >= 2
    /\ state.candidates # <<>>
    /\ ~IsNone(state.selected_movie)
    /\ ~IsNone(state.extraction_decision)
    /\ ~Get(state.extraction_decision).payload.is_success
    /\ IsNone(state.query)

\* C24: clarification_count never exceeds MAX_CLARIFICATION_ATTEMPTS (3) in
\* a conversation that starts at 0; the clarify node is never entered with
\* the count at 3; and once the count is 3, the step that ends a turn is a
\* step of the respond node.
C24_CountWithinCeiling ==
    /\ [](/\ state.clarification_count <= 3
          /\ state.clarification_count <= MAX_CLARIFICATION_ATTEMPTS
          /\ pc = "clarify" => state.clarification_count < 3)
    /\ [][(state.clarification_count = 3 /\ pc # "END" /\ pc' = "END") =>
             (pc = "respond" /\ Last(path') = "respond")]_vars

C24_Witness ==
    /\ state.clarification_count = 3
    /\ turns = 5
    /\ pc = "END"
    /\ Last(path) = "respond"
    /\ Len(state.candidates) >= 2
    /\ IsNone(state.selected_movie)
    /\ Last(state.messages).kind = "movie_response"

\* C25: after a visit of SEARCH, selected_movie is set if and only if there
\* is exactly one candidate and its score is >= 0.8, and it is then that
\* candidate's item; a turn in which SEARCH sets a selection goes on to
\* RESPOND, and the clarify node is never entered with selected_movie set.
C25_SelectionOnlyForSingleHighScore ==
    /\ [][(pc = "search" /\ pc' # "raised") =>
             /\ ~IsNone(state'.selected_movie) <=>
                   (/\ Len(state'.candidates) = 1
                    /\ RGe(state'.candidates[1].score, Rat(8, 10)))
             /\ ~IsNone(state'.selected_movie) =>
                   /\ state'.selected_movie = Some(state'.candidates[1].item)
                   /\ pc' = "respond"]_vars
    /\ [](pc = "clarify" => IsNone(state.selected_movie))

C25_Witness ==
    /\ pc = "respond"
    /\ path = <<"extract", "search">>
    /\ turns >= 2
    /\ state.clarification_count >= 1
    /\ Len(state.candidates) = 1
    /\ state.selected_movie = Some(state.candidates[1].item)

\* C26: when the search node runs, the query is present and not empty and
\* the extraction decision is present with needs_clarification false; when
\* the clarify node runs, there is at least one candidate; so the history
\* never holds the "couldn't find any movies" message of clarify_node.
C26_GuardsHoldAtEntry ==
    /\ pc = "search" =>
          /\ ~IsNone(state.query)
          /\ ~is_empty(Get(state.query))
          /\ ~IsNone(state.extraction_decision)
          /\ ~Get(state.extraction_decision).needs_clarification
    /\ pc = "clarify" => state.candidates # <<>>
    /\ \A i \in 1..Len(state.messages) : state.messages[i] # ClarifyNoMatchesMessage

C26_Witness ==
    /\ pc = "clarify"
    /\ path = <<"extract", "search">>
    /\ turns >= 2
    /\ Len(state.candidates) >= 2
    /\ ~IsNone(state.query)
    /\ ~is_empty(Get(state.query))
    /\ Len(state.messages) >= 3

AgentMessages(messages) == {i \in 1..Len(messages) : messages[i].role = "ai"}

IsPrefix(s, t) == Len(s) <= Len(t) /\ SubSeq(t, 1, Len(s)) = s

\* C27: the message history only grows at its end, earlier messages staying
\* as they are and in order; a turn that completes adds exactly one agent
\* message, in its last step, which is a step of clarify or of respond (also
\* when extract goes straight to respond and when the history was empty); the
\* other nodes add none.
C27_OneAgentMessagePerTurn ==
    /\ [](Cardinality(AgentMessages(state.messages))
             = (IF pc = "END" THEN turns ELSE turns - 1))
    /\ [][/\ IsPrefix(state.messages, state'.messages)
          /\ pc \in {"extract", "search"} => state'.messages = state.messages
          /\ (pc # "END" /\ pc' = "END") =>
                /\ pc \in {"clarify", "respond"}
                /\ Len(state'.messages) = Len(state.messages) + 1
                /\ Last(state'.messages).role = "ai"
                /\ (pc = "clarify") <=> (Last(state'.messages).kind = "clarify_options")]_vars

C27_Witness ==
    /\ pc = "END"
    /\ turns = 3
    /\ Len(state.messages) = 6
    /\ state.messages[2].kind = "clarify_options"
    /\ state.messages[4].kind = "not_found_response"
    /\ state.messages[6].kind = "not_found_response"
    /\ path = <<"extract", "respond">>

\* C28: a turn in which extract goes straight to respond, the search node not
\* having run, does not answer with the description of a movie: its response
\* is not built from a selected_movie or a candidate list an earlier turn
\* left in the state.
C28_RespondOnlyFromThisTurnsSearch ==
    (pc = "END" /\ path = <<"extract", "respond">>) =>
        Last(state.messages).kind # "movie_response"

StillWaiting(responses, n) == \A i \in 1..n : responses[i] \in {"Pending", "Running"}

\* C29: _poll_until_complete terminates; it makes at most poll_max_attempts
\* status requests; it returns on the first Completed, raises TaskFailedError
\* on the first Failed or Error, raises TaskTimeoutError when
\* poll_max_attempts responses in a row were Pending or Running, lets an
\* error of the transport through at once, and makes no request after any of
\* these.
C29_PollTerminates ==
    /\ [](/\ Len(call.responses) <= call.poll_max_attempts
          /\ StillWaiting(call.responses, Len(call.responses) - 1)
          /\ call.at # "done" =>
                /\ call.outcome = None
                /\ StillWaiting(call.responses, Len(call.responses))
          /\ call.at = "done" =>
                /\ call.outcome = Some("returned") <=>
                      (call.responses # <<>> /\ Last(call.responses) = "Completed")
                /\ call.outcome = Some("TaskFailedError") <=>
                      (call.responses # <<>> /\ Last(call.responses) \in {"Failed", "Error"})
                /\ call.outcome = Some("TransportError") <=>
                      (call.responses # <<>> /\ Last(call.responses) = "TransportError")
                /\ call.outcome = Some("TaskTimeoutError") <=>
                      (/\ Len(call.responses) = call.poll_max_attempts
                       /\ StillWaiting(call.responses, Len(call.responses))))
    /\ [][call.outcome # None => call'.responses = call.responses]_vars
    /\ <>(call.at = "done")

C29_Witness ==
    /\ call.fn = "_poll_until_complete"
    /\ call.at = "done"
    /\ call.poll_max_attempts = 3
    /\ call.responses = <<"Pending", "Running", "Pending">>
    /\ call.outcome = Some("TaskTimeoutError")

\* At most one token request is in flight, and its caller holds the lock
OneTokenRequestInFlight ==
    /\ Cardinality({p \in Callers : call.callers[p].at = "in_flight"}) <= 1
    /\ \A p \in Callers :
          call.callers[p].at = "in_flight" <=> call.lock = Some(p)

\* A caller that found the token refreshed when it got the lock made no
\* token request of its own
WaiterReusesToken ==
    \A p \in Callers :
        ~(call.callers[p].refreshed_meanwhile /\ call.callers[p].requested)

\* A caller whose token request failed does not hold the lock
LockReleasedOnFailure ==
    \A p \in Callers : call.callers[p].at = "failed" => call.lock # Some(p)

\* The header carries a token that _is_expired accepted when it was set
HeaderTokenNotExpired ==
    \A p \in Callers :
        call.callers[p].at = "done" =>
            /\ call.callers[p].header # None
            /\ ~call.callers[p].considered_expired

\* C30: under any interleaving of concurrent auth flows on one instance, at
\* most one token request is in flight, a caller that waited on the lock
\* while another refreshed the token makes no token request of its own, the
\* lock is released when a token request fails, and no request gets a bearer
\* token the instance considered missing or expired when the header was set.
C30_LockPreventsHerd ==
    /\ OneTokenRequestInFlight
    /\ WaiterReusesToken
    /\ LockReleasedOnFailure
    /\ HeaderTokenNotExpired
====
